---- MODULE Spec2Model ----
(***************************************************************************)
(* A model of molyso's cell segmentation core: the extrema/prominence      *)
(* analysis of generic/signal.py and the cell boundary detector of         *)
(* mm/cell_detection.py, with the tunable registry of generic/tunable.py.  *)
(*                                                                         *)
(* Conventions.                                                            *)
(*  - Arrays are sequences.  Indices kept in results (maxima, minima,      *)
(*    positions, cell boundaries) are the Python ones, 0-based; At(s, i)   *)
(*    reads s at a Python index.                                           *)
(*  - Floating-point values are integers extended by NaN, PosInf and       *)
(*    NegInf; FSub, FGt and FLt follow IEEE 754 on them (a comparison with *)
(*    NaN is false).  Rounding noise of the numeric libraries is not       *)
(*    modelled.                                                            *)
(*  - scipy and numpy are libraries, not code of the repository: each of   *)
(*    their functions is modelled at the place of its call, by what the    *)
(*    library documents.                                                   *)
(***************************************************************************)
EXTENDS Integers, Sequences, FiniteSets, TLC

VARIABLES
    pc,             \* position of the modelled call
    signal,         \* find_extrema_and_prominence: the input signal
    order,          \* find_extrema_and_prominence: the requested order
    extrema,        \* find_extrema_and_prominence: the returned record
    defaults,       \* TunableManager.defaults
    current,        \* TunableManager.current
    force_default,  \* TunableManager.force_default
    channel,        \* the channel a Cells object is built for
    bootstrap,      \* Cells.__init__: the bootstrap argument
    detection,      \* find_cells_in_channel: what the call computed and returned
    cells_list,     \* Cells.cells_list
    args,           \* a call of a signal primitive: its arguments, as the caller holds them
    result,         \* a call of a signal primitive: what it returned or raised
    to_process,     \* main: the (t, pos) pairs to process
    workerstates,   \* main: the work list of (t, pos, state) entries
    snapshot,       \* main: list(enumerate(workerstates)) of the current polling round
    walk,           \* main: how many entries of the snapshot the round has visited
    ready,          \* the asynchronous results that are ready
    results,        \* main: results[pos][t]
    image_fluorescences,            \* FluorescentImage.image_fluorescences
    original_image_fluorescences,   \* FluorescentImage.original_image_fluorescences
    background_fluorescences,       \* FluorescentImage.background_fluorescences
    channels        \* Image.channels: the number of channels found, None before

extremaVars == <<signal, order, extrema>>
tunableVars == <<defaults, current, force_default>>
cellVars == <<channel, bootstrap, detection, cells_list>>
primitiveVars == <<args, result>>

mainVars == <<to_process, workerstates, snapshot, walk, ready, results>>
fluorescenceVars == <<image_fluorescences, original_image_fluorescences,
                      background_fluorescences, channels>>

vars == <<pc, signal, order, extrema, defaults, current, force_default,
          channel, bootstrap, detection, cells_list, args, result,
          to_process, workerstates, snapshot, walk, ready, results,
          image_fluorescences, original_image_fluorescences,
          background_fluorescences, channels>>

(***************************************************************************)
(* Bounds of the model.                                                    *)
(***************************************************************************)
MaxLen == 5
MaxOrder == 3

\* the sample values of a signal, and the finite values a fitted spline with
\* non-constant control values is allowed to take at a position
SigVals == {0, 1, 2}
EnvVals == {0, 20}
Orders == (0 - 1)..MaxOrder

MaxRows == 6

\* the rows a channel image is made of, the values of a processed profile
Rows == {<<0>>, <<1>>}
ProfileVals == {0, 20}

(***************************************************************************)
(* Floating point.                                                         *)
(***************************************************************************)
PosInf == 1000 * 1000
NegInf == 0 - PosInf
NaN == PosInf + PosInf

IsFinite(a) == a # NaN /\ a # PosInf /\ a # NegInf

FSub(a, b) ==
    IF a = NaN \/ b = NaN THEN NaN
    ELSE IF a = PosInf THEN (IF b = PosInf THEN NaN ELSE PosInf)
    ELSE IF a = NegInf THEN (IF b = NegInf THEN NaN ELSE NegInf)
    ELSE IF b = PosInf THEN NegInf
    ELSE IF b = NegInf THEN PosInf
    ELSE a - b

FGt(a, b) == a # NaN /\ b # NaN /\ a > b
FLt(a, b) == a # NaN /\ b # NaN /\ a < b

(***************************************************************************)
(* Sequences.                                                              *)
(***************************************************************************)
At(s, i) == s[i + 1]

SeqsUpTo(S, lo, hi) == UNION {[1..n -> S] : n \in lo..hi}

RECURSIVE SortedSeq(_)
SortedSeq(S) ==
    IF S = {} THEN <<>>
    ELSE LET m == CHOOSE x \in S : \A y \in S : x <= y
         IN <<m>> \o SortedSeq(S \ {m})

ConstSeq(n, v) == [i \in 1..n |-> v]

AllEqual(s) == \A i \in DOMAIN s : s[i] = s[1]

(***************************************************************************)
(* numpy.argmax / numpy.argmin: the first index of the largest / smallest  *)
(* value.                                                                  *)
(***************************************************************************)
Argmax(s) ==
    CHOOSE i \in 0..(Len(s) - 1) :
        /\ \A j \in 0..(Len(s) - 1) : At(s, j) <= At(s, i)
        /\ \A j \in 0..(i - 1) : At(s, j) < At(s, i)

Argmin(s) ==
    CHOOSE i \in 0..(Len(s) - 1) :
        /\ \A j \in 0..(Len(s) - 1) : At(s, j) >= At(s, i)
        /\ \A j \in 0..(i - 1) : At(s, j) > At(s, i)

(***************************************************************************)
(* relative_maxima / relative_minima: scipy.signal.argrelmax / argrelmin   *)
(* with the default mode 'clip'.  A neighbour index outside the signal is  *)
(* clipped to the boundary sample, so a boundary sample is compared with   *)
(* itself and is never an extremum.  The library raises ValueError for an  *)
(* order below 1 and returns an empty index array when nothing is found.   *)
(***************************************************************************)
Clip(i, n) == IF i < 0 THEN 0 ELSE IF i > n - 1 THEN n - 1 ELSE i

RelativeRaises(iorder) == iorder < 1

\* a comparison with the neighbours inside the signal only, which lets a
\* boundary sample be a maximum
RelativeMaximaInside(s, iorder) ==
    SortedSeq({i \in 0..(Len(s) - 1) :
        \A shift \in 1..iorder :
            /\ (i + shift <= Len(s) - 1) => At(s, i) > At(s, i + shift)
            /\ (i - shift >= 0) => At(s, i) > At(s, i - shift)})

relative_maxima(s, iorder) ==
    SortedSeq({i \in 0..(Len(s) - 1) :
        \A shift \in 1..iorder :
            /\ At(s, i) > At(s, Clip(i + shift, Len(s)))
            /\ At(s, i) > At(s, Clip(i - shift, Len(s)))})

relative_minima(s, iorder) ==
    SortedSeq({i \in 0..(Len(s) - 1) :
        \A shift \in 1..iorder :
            /\ At(s, i) < At(s, Clip(i + shift, Len(s)))
            /\ At(s, i) < At(s, Clip(i - shift, Len(s)))})

(***************************************************************************)
(* find_extrema_and_prominence, lines 112-135: the search loops.           *)
(* The loop leaves at the first order whose call does not raise; an empty  *)
(* answer is not an exception, so it ends the loop as well.                *)
(***************************************************************************)
RECURSIVE MaximaSearch(_, _, _)
MaximaSearch(s, iorder, initial) ==
    IF iorder > 0
    THEN IF RelativeRaises(iorder)
         THEN MaximaSearch(s, iorder - 1, initial)
         ELSE relative_maxima(s, iorder)
    ELSE initial

RECURSIVE MinimaSearch(_, _, _)
MinimaSearch(s, iorder, initial) ==
    IF iorder > 0
    THEN IF RelativeRaises(iorder)
         THEN MinimaSearch(s, iorder - 1, initial)
         ELSE relative_minima(s, iorder)
    ELSE initial

FindMaximaNoFallback(s, ord) == MaximaSearch(s, ord, <<>>)

FindMaxima(s, ord) ==
    LET found == MaximaSearch(s, ord, <<Argmax(s)>>)
    IN IF Len(found) = 0 THEN <<Argmax(s)>> ELSE found

FindMinima(s, ord) ==
    LET found == MinimaSearch(s, ord, <<Argmin(s)>>)
    IN IF Len(found) = 0 THEN <<Argmin(s)>> ELSE found

(***************************************************************************)
(* Lines 137-157: the anchored control sequences of an envelope.           *)
(***************************************************************************)
ControlX(s, ext) == <<0>> \o ext \o <<Len(s) - 1>>

ControlYFromBoundary(s, ext) ==
    <<At(s, 0)>> \o [i \in 1..Len(ext) |-> At(s, ext[i])] \o <<At(s, Len(s) - 1)>>

ControlY(s, ext) ==
    <<At(s, ext[1])>> \o [i \in 1..Len(ext) |-> At(s, ext[i])]
        \o <<At(s, ext[Len(ext)])>>

\* signal[ext][0] raises IndexError on an empty index array, and signal[ext]
\* raises it on an index outside the signal
ControlRaises(s, ext) ==
    \/ Len(ext) = 0
    \/ \E i \in 1..Len(ext) : ext[i] < 0 \/ ext[i] > Len(s) - 1

(***************************************************************************)
(* Lines 159-193: the degree of the fit and the envelope.                  *)
(***************************************************************************)
EnvelopeDegreeNoAnchors(count) == IF count - 2 <= 3 THEN count - 3 ELSE 3

EnvelopeDegreeOffByOne(count) == IF count <= 3 THEN count ELSE 3

EnvelopeDegree(count) == IF count <= 3 THEN count - 1 ELSE 3

(***************************************************************************)
(* scipy.interpolate.UnivariateSpline(x, y, bbox, k) with the default      *)
(* smoothing factor s = len(x).  The constructor raises when there are not *)
(* more points than the degree or when x decreases.  The fit starts from   *)
(* the least-squares polynomial of degree k and keeps it when its residual *)
(* is within s: control values that are all equal are fitted by that       *)
(* constant.  Repeated abscissae make the system singular, and the library *)
(* then may return NaN coefficients (its warnings are silenced by the      *)
(* caller).  For other control values the fitted curve is not computed     *)
(* here: any value of EnvVals at any position is allowed.                  *)
(***************************************************************************)
SplineRaises(x, k) ==
    \/ Len(x) <= k
    \/ \E i \in 1..(Len(x) - 1) : x[i] > x[i + 1]

HasRepeat(x) == \E i \in 1..(Len(x) - 1) : x[i] = x[i + 1]

SplinePoints(x, y, n) ==
    (IF AllEqual(y) THEN {ConstSeq(n, y[1])} ELSE [1..n -> EnvVals])
        \cup (IF HasRepeat(x) THEN {ConstSeq(n, NaN)} ELSE {})

MaxEnvelopes(x, y, k, n) ==
    IF k < 1 THEN {ConstSeq(n, PosInf)} ELSE SplinePoints(x, y, n)

MinEnvelopes(x, y, k, n) ==
    IF k < 1 THEN {ConstSeq(n, NegInf)} ELSE SplinePoints(x, y, n)

Prominence(maxsy, minsy) == [i \in DOMAIN maxsy |-> FSub(maxsy[i], minsy[i])]

(***************************************************************************)
(* find_extrema_and_prominence as a whole: the set of records a call may   *)
(* return.  raised marks a call that ends in an exception.                 *)
(***************************************************************************)
Raised ==
    [raised |-> TRUE, maxima |-> <<>>, minima |-> <<>>,
     maximaintpx |-> <<>>, maximaintpy |-> <<>>,
     minimaintpx |-> <<>>, minimaintpy |-> <<>>,
     kmax |-> 0, kmin |-> 0,
     max_spline_points |-> <<>>, min_spline_points |-> <<>>,
     prominence |-> <<>>]

find_extrema_and_prominence(s, ord) ==
    LET maxima == FindMaxima(s, ord)
        minima == FindMinima(s, ord)
    IN  IF ControlRaises(s, maxima) \/ ControlRaises(s, minima) THEN {Raised}
        ELSE
        LET maximaintpx == ControlX(s, maxima)
            maximaintpy == ControlY(s, maxima)
            minimaintpx == ControlX(s, minima)
            minimaintpy == ControlY(s, minima)
            kmax == EnvelopeDegree(Len(maximaintpy))
            kmin == EnvelopeDegree(Len(minimaintpy))
        IN  IF \/ (kmax >= 1 /\ SplineRaises(maximaintpx, kmax))
               \/ (kmin >= 1 /\ SplineRaises(minimaintpx, kmin))
            THEN {Raised}
            ELSE
            {[raised |-> FALSE, maxima |-> maxima, minima |-> minima,
              maximaintpx |-> maximaintpx, maximaintpy |-> maximaintpy,
              minimaintpx |-> minimaintpx, minimaintpy |-> minimaintpy,
              kmax |-> kmax, kmin |-> kmin,
              max_spline_points |-> maxsy, min_spline_points |-> minsy,
              prominence |-> Prominence(maxsy, minsy)] :
                <<maxsy, minsy>> \in
                    MaxEnvelopes(maximaintpx, maximaintpy, kmax, Len(s))
                    \X MinEnvelopes(minimaintpx, minimaintpy, kmin, Len(s))}

NoResult == [Raised EXCEPT !.raised = FALSE]

(***************************************************************************)
(* Tunables (generic/tunable.py).  A value is a number with the Python     *)
(* type it has: kind is "bool", "int" or "float", and the value is         *)
(* num / den (True is 1, False is 0).                                      *)
(***************************************************************************)
Boolean(b) == [kind |-> "bool", num |-> IF b THEN 1 ELSE 0, den |-> 1]
Integer(i) == [kind |-> "int", num |-> i, den |-> 1]
Float(n, d) == [kind |-> "float", num |-> n, den |-> d]

Truth(v) == v.num # 0

\* int() of a number truncates towards zero
Trunc(n, d) == IF n >= 0 THEN n \div d ELSE 0 - ((0 - n) \div d)

\* type(default)(value), line 95
Convert(kind, v) ==
    IF kind = "bool" THEN Boolean(Truth(v))
    ELSE IF kind = "int" THEN Integer(Trunc(v.num, v.den))
    ELSE Float(v.num, v.den)

\* get_tunable without the force_default switch
GetTunableUnforced(cur, force, what, default) ==
    IF what \notin DOMAIN cur THEN default
    ELSE Convert(default.kind, cur[what])

\* TunableManager.get_tunable, lines 86-98: the value returned
get_tunable(cur, force, what, default) ==
    IF force \/ what \notin DOMAIN cur THEN default
    ELSE Convert(default.kind, cur[what])

\* a registry that keeps the default of the first request for a name
RecordDefaultsKeepingFirst(defs, asked) ==
    [what \in DOMAIN defs \cup DOMAIN asked |->
        IF what \in DOMAIN defs THEN defs[what] ELSE asked[what]]

\* a registry that holds the requests of the latest caller only
RecordDefaultsReplacing(defs, asked) == asked

\* TunableManager.get_tunable, line 85: defaults after the requests `asked`,
\* a function from the requested names to the defaults passed
RecordDefaults(defs, asked) ==
    [what \in DOMAIN defs \cup DOMAIN asked |->
        IF what \in DOMAIN asked THEN asked[what] ELSE defs[what]]

NoTunables == [what \in {} |-> Integer(0)]

\* the defaults the callers in mm/cell_detection.py pass
CompiledDefaults ==
    ("cells.minimal_length.in_mu" :> Float(1, 1))
    @@ ("cells.empty_channel.skipping" :> Boolean(FALSE))
    @@ ("cells.empty_channel.skipping.outlier_times_sigma" :> Float(2, 1))
    @@ ("cells.empty_channel.skipping.intensity_range_quotient" :> Float(1, 2))
    @@ ("cells.otsu_bias" :> Float(1, 1))
    @@ ("cells.smoothing.length" :> Integer(10))
    @@ ("cells.extrema.order" :> Integer(15))
    @@ ("cells.filtering.maximum_brightness" :> Float(1, 2))
    @@ ("cells.filtering.minimum_prominence" :> Float(10, 1))

Asked(names) == [what \in names |-> CompiledDefaults[what]]

\* tunable(what, default) as called in mm/cell_detection.py
tunable(cur, force, what) == get_tunable(cur, force, what, CompiledDefaults[what])

(***************************************************************************)
(* Numbers of the form (a + b * sqrt(q)) / scale, with integers a, b, a    *)
(* radicand q >= 0 and a positive scale shared by the values compared:     *)
(* what a median plus a multiple of a standard deviation is.               *)
(***************************************************************************)
Sgn(a) == IF a > 0 THEN 1 ELSE IF a < 0 THEN 0 - 1 ELSE 0

Surd(a, b) == [a |-> a, b |-> b]

SurdSub(u, v) == Surd(u.a - v.a, u.b - v.b)

SurdScale(c, u) == Surd(c * u.a, c * u.b)

\* the sign of a + b * sqrt(q)
SurdSign(u, q) ==
    IF u.b = 0 \/ q = 0 THEN Sgn(u.a)
    ELSE IF u.a = 0 THEN Sgn(u.b)
    ELSE IF u.a > 0 /\ u.b > 0 THEN 1
    ELSE IF u.a < 0 /\ u.b < 0 THEN 0 - 1
    ELSE IF u.a > 0 THEN Sgn(u.a * u.a - u.b * u.b * q)
    ELSE Sgn(u.b * u.b * q - u.a * u.a)

SurdLess(u, v, q) == SurdSign(SurdSub(u, v), q) < 0

SurdAbs(u, q) == IF SurdSign(u, q) < 0 THEN SurdScale(0 - 1, u) ELSE u

RECURSIVE SumSeq(_)
SumSeq(s) == IF Len(s) = 0 THEN 0 ELSE s[1] + SumSeq(Tail(s))

RECURSIVE Sorted(_)
Sorted(s) ==
    IF Len(s) = 0 THEN <<>>
    ELSE LET i == CHOOSE i \in DOMAIN s : \A j \in DOMAIN s : s[i] <= s[j]
         IN <<s[i]>> \o Sorted([j \in 1..(Len(s) - 1) |-> IF j < i THEN s[j] ELSE s[j + 1]])

(***************************************************************************)
(* threshold_outliers (generic/signal.py, lines 348-353) on floating-point *)
(* data.  With n = len(data) and times_std = tn / td, every value is kept  *)
(* as a Surd over the scale 2 * n * td and the radicand                    *)
(* q = 4 * tn^2 * (n * sum(x^2) - sum(x)^2), so that                       *)
(*    x                 is  Surd(2 * n * td * x, 0),                       *)
(*    numpy.median      is  Surd(n * td * (twice the median), 0),          *)
(*    times_std * std   is  Surd(0, sign of tn).                           *)
(***************************************************************************)
TwiceMedian(data) ==
    LET sorted == Sorted(data)
        n == Len(data)
    IN IF n % 2 = 1 THEN 2 * sorted[(n + 1) \div 2]
       ELSE sorted[n \div 2] + sorted[n \div 2 + 1]

Radicand(data, times_std) ==
    LET n == Len(data)
        squares == SumSeq([i \in 1..n |-> data[i] * data[i]])
        total == SumSeq(data)
    IN 4 * times_std.num * times_std.num * (n * squares - total * total)

\* the integer a float truncates to when it is stored into an integer array
\* (towards zero); v = (a + b * sqrt(q)) / scale
TruncSurd(u, q, scale) ==
    LET absa == IF u.a < 0 THEN 0 - u.a ELSE u.a
        absb == IF u.b < 0 THEN 0 - u.b ELSE u.b
        bound == (absa + absb * q) \div scale + 1
    IN IF SurdSign(u, q) >= 0
       THEN CHOOSE k \in 0..bound :
                /\ SurdSign(SurdSub(u, Surd(scale * k, 0)), q) >= 0
                /\ SurdSign(SurdSub(u, Surd(scale * (k + 1), 0)), q) < 0
       ELSE CHOOSE k \in (0 - bound)..0 :
                /\ SurdSign(SurdSub(u, Surd(scale * k, 0)), q) <= 0
                /\ SurdSign(SurdSub(u, Surd(scale * (k - 1), 0)), q) > 0

\* every array storing a value like an integer array
StoreAsTruncated(dtype, u, q, scale) == Surd(scale * TruncSurd(u, q, scale), 0)

\* a value as an array of the given dtype stores it
StoreAs(dtype, u, q, scale) ==
    IF dtype = "float" THEN u ELSE Surd(scale * TruncSurd(u, q, scale), 0)

\* lines 348-353 on an array of the given dtype, "int" or "float"
threshold_outliers_as(dtype, data, times_std) ==
    LET n == Len(data)
        q == Radicand(data, times_std)
        scale == 2 * n * times_std.den
        median == Surd(n * times_std.den * TwiceMedian(data), 0)
        spread == Surd(0, Sgn(times_std.num))
        copy == [i \in 1..n |-> Surd(scale * data[i], 0)]
        \* line 351
        upper == [i \in 1..n |->
            IF SurdSign(SurdSub(SurdSub(copy[i], median), spread), q) > 0
            THEN StoreAs(dtype, Surd(median.a, spread.b), q, scale) ELSE copy[i]]
        \* line 352
        lower == [i \in 1..n |->
            IF /\ SurdSign(SurdSub(upper[i], median), q) < 0
               /\ SurdSign(SurdSub(SurdAbs(SurdSub(upper[i], median), q), spread), q) > 0
            THEN StoreAs(dtype, Surd(median.a, 0 - spread.b), q, scale) ELSE upper[i]]
    IN lower

\* the call of line 100: the mean profile is a floating-point array
threshold_outliers(data, times_std) == threshold_outliers_as("float", data, times_std)

SurdMax(s, q) == s[CHOOSE i \in DOMAIN s : \A j \in DOMAIN s : ~SurdLess(s[i], s[j], q)]
SurdMin(s, q) == s[CHOOSE i \in DOMAIN s : \A j \in DOMAIN s : ~SurdLess(s[j], s[i], q)]

\* lines 103-104: ((max - min) / max) < quotient in floating point.  A zero
\* maximum divides by zero: the quotient is NaN or infinite and the
\* comparison is false.
RangeQuotientBelowUnsigned(s, q, quotient) ==
    LET hi == SurdMax(s, q)
        lo == SurdMin(s, q)
        diff == SurdSub(SurdScale(quotient.den, SurdSub(hi, lo)),
                        SurdScale(quotient.num, hi))
    IN SurdSign(hi, q) # 0 /\ SurdSign(diff, q) < 0

RangeQuotientBelow(s, q, quotient) ==
    LET hi == SurdMax(s, q)
        lo == SurdMin(s, q)
        diff == SurdSub(SurdScale(quotient.den, SurdSub(hi, lo)),
                        SurdScale(quotient.num, hi))
    IN IF SurdSign(hi, q) = 0 THEN FALSE
       ELSE IF SurdSign(hi, q) > 0 THEN SurdSign(diff, q) < 0
       ELSE SurdSign(diff, q) > 0

(***************************************************************************)
(* Images.  An image is a sequence of rows (axis 0, along the channel) of  *)
(* pixel values (axis 1).  vertical_mean (generic/signal.py, line 235)     *)
(* averages each row; a mean profile is kept as the row sums, in units of  *)
(* 1 / width.  threshold_outliers commutes with that positive scaling, and *)
(* the range quotient does not depend on it.                               *)
(***************************************************************************)
Width(img) == Len(img[1])

vertical_mean(img) == [i \in 1..Len(img) |-> SumSeq(img[i])]

Pixels(img) == {img[i][j] : i \in 1..Len(img), j \in 1..Width(img)}

(***************************************************************************)
(* threshold_otsu (generic/otsu.py): a threshold that minimises the        *)
(* intra-class variance of the two classes "<= t" and "> t".  The set of   *)
(* thresholds it may return: a cut below the largest pixel value with the  *)
(* least within-class sum of squares; on an image of a single value every  *)
(* threshold is as good, and the value itself or one below it is taken.    *)
(***************************************************************************)
WithinScaled(img, t) ==
    LET low == {<<i, j>> \in (1..Len(img)) \X (1..Width(img)) : img[i][j] <= t}
        high == ((1..Len(img)) \X (1..Width(img))) \ low
        RECURSIVE Sum1(_), Sum2(_)
        Sum1(S) == IF S = {} THEN 0
                   ELSE LET e == CHOOSE e \in S : TRUE
                        IN img[e[1]][e[2]] + Sum1(S \ {e})
        Sum2(S) == IF S = {} THEN 0
                   ELSE LET e == CHOOSE e \in S : TRUE
                        IN img[e[1]][e[2]] * img[e[1]][e[2]] + Sum2(S \ {e})
        nl == Cardinality(low)
        nh == Cardinality(high)
    IN \* the within-class sum of squares times nl * nh, and nl * nh
       [wss |-> nh * (nl * Sum2(low) - Sum1(low) * Sum1(low))
                + nl * (nh * Sum2(high) - Sum1(high) * Sum1(high)),
        by |-> nl * nh]

threshold_otsu(img) ==
    LET values == Pixels(img)
        top == CHOOSE v \in values : \A w \in values : w <= v
        cuts == values \ {top}
    IN IF cuts = {} THEN {top - 1, top}
       ELSE {t \in cuts : \A u \in cuts :
                WithinScaled(img, t).wss * WithinScaled(img, u).by
                    <= WithinScaled(img, u).wss * WithinScaled(img, t).by}

\* lines 109-110: the rows' counts of pixels above threshold * bias
ProfileOfBinaryImage(img, threshold, bias) ==
    [i \in 1..Len(img) |->
        Cardinality({j \in 1..Width(img) :
            img[i][j] * bias.den > threshold * bias.num})]

(***************************************************************************)
(* hamming_smooth (generic/smoothing.py) is a windowed convolution: of a   *)
(* signal that is zero everywhere it returns that signal, and of any other *)
(* signal some signal of the same length.  Lines 113-119 subtract the      *)
(* smoothed profile from the profile, smooth the difference and round it:  *)
(* the processed profile of a zero profile is zero, that of any other      *)
(* profile is any signal of that length over ProfileVals.                  *)
(***************************************************************************)
IsZero(s) == \A i \in DOMAIN s : s[i] = 0

hamming_smooth(s) == IF IsZero(s) THEN {s} ELSE [1..Len(s) -> ProfileVals]

\* generic/signal.py, line 218: signal - hamming_smooth(signal, len(signal));
\* the difference with an unconstrained signal is unconstrained
simple_baseline_correction(s) ==
    IF \A smoothed \in hamming_smooth(s) : IsZero(smoothed)
    THEN {ConstSeq(Len(s), 0)}
    ELSE [1..Len(s) -> ProfileVals]

\* lines 113-119; rounding to 8 decimals keeps the integers of the model
ProcessedProfiles(profile) ==
    IF \A corrected \in simple_baseline_correction(profile) : IsZero(corrected)
    THEN hamming_smooth(ConstSeq(Len(profile), 0))
    ELSE [1..Len(profile) -> ProfileVals]

(***************************************************************************)
(* find_cells_in_channel (mm/cell_detection.py, lines 95-163).             *)
(***************************************************************************)
\* numpy's mean of s[last_pos:pos] compared with a tunable, lines 138-139
Slice(s, last_pos, pos) == [i \in 1..(pos - last_pos) |-> s[last_pos + i]]

RECURSIVE FSum(_)
FSum(s) ==
    IF Len(s) = 0 THEN 0
    ELSE LET rest == FSum(Tail(s))
         IN IF s[1] = NaN \/ rest = NaN THEN NaN
            ELSE IF s[1] = PosInf THEN (IF rest = NegInf THEN NaN ELSE PosInf)
            ELSE IF s[1] = NegInf THEN (IF rest = PosInf THEN NaN ELSE NegInf)
            ELSE IF rest = PosInf \/ rest = NegInf THEN rest
            ELSE s[1] + rest

\* mean(counts) / width < limit
MeanBelow(counts, width, limit) ==
    SumSeq(counts) * limit.den < limit.num * width * Len(counts)

\* mean(values) > limit
FMeanAbove(values, limit) ==
    LET total == FSum(values)
    IN IF total = NaN \/ total = NegInf THEN FALSE
       ELSE IF total = PosInf THEN TRUE
       ELSE total * limit.den > limit.num * Len(values)

is_a_cell_or(cur, force, binary_profile, width, prominence, last_pos, pos) ==
    /\ pos - last_pos > 2
    /\ \/ MeanBelow(Slice(binary_profile, last_pos, pos), width,
                    tunable(cur, force, "cells.filtering.maximum_brightness"))
       \/ FMeanAbove(Slice(prominence, last_pos, pos),
                    tunable(cur, force, "cells.filtering.minimum_prominence"))

\* the filter with a size pre-filter that lets an extent of two pass
is_a_cell_of_two(cur, force, binary_profile, width, prominence, last_pos, pos) ==
    /\ pos - last_pos > 1
    /\ MeanBelow(Slice(binary_profile, last_pos, pos), width,
                 tunable(cur, force, "cells.filtering.maximum_brightness"))
    /\ FMeanAbove(Slice(prominence, last_pos, pos),
                  tunable(cur, force, "cells.filtering.minimum_prominence"))

is_a_cell(cur, force, binary_profile, width, prominence, last_pos, pos) ==
    /\ pos - last_pos > 2
    /\ MeanBelow(Slice(binary_profile, last_pos, pos), width,
                 tunable(cur, force, "cells.filtering.maximum_brightness"))
    /\ FMeanAbove(Slice(prominence, last_pos, pos),
                  tunable(cur, force, "cells.filtering.minimum_prominence"))

\* the subsequence of s at the indices of `keep`, in order
SubSeqAt(s, keep) ==
    LET idx == SortedSeq(keep)
    IN [k \in 1..Len(idx) |-> s[idx[k]]]

\* line 142
PositionsAll(maxima, prominence, size) == maxima \o <<size>>

Positions(maxima, prominence, size) ==
    SubSeqAt(maxima, {i \in DOMAIN maxima : FGt(At(prominence, maxima[i]), 0)})
        \o <<size>>

\* line 144: zip([0] + positions, positions)
Candidates(positions) ==
    [i \in 1..Len(positions) |->
        <<IF i = 1 THEN 0 ELSE positions[i - 1], positions[i]>>]

\* the empty-channel test of lines 100-105
EmptyChannelTest(cur, force, profile) ==
    LET times_sigma == tunable(cur, force, "cells.empty_channel.skipping.outlier_times_sigma")
        thresholded_profile == threshold_outliers(profile, times_sigma)
    IN RangeQuotientBelow(thresholded_profile, Radicand(profile, times_sigma),
            tunable(cur, force, "cells.empty_channel.skipping.intensity_range_quotient"))

SkipsEmptyOr(cur, force, profile) ==
    \/ EmptyChannelTest(cur, force, profile)
    \/ Truth(tunable(cur, force, "cells.empty_channel.skipping"))

SkipsEmpty(cur, force, profile) ==
    /\ EmptyChannelTest(cur, force, profile)
    /\ Truth(tunable(cur, force, "cells.empty_channel.skipping"))

NotDetected ==
    [called |-> FALSE, raised |-> FALSE, skipped |-> FALSE,
     profile_of_binary_image |-> <<>>, maxima |-> <<>>, prominence |-> <<>>,
     positions |-> <<>>, candidates |-> <<>>, cells |-> <<>>,
     asked |-> NoTunables]

\* the tunables a call asks for, in the order of the code; `and` evaluates
\* its right operand only when the left one is true
AskedHead(cur, force, profile) ==
    {"cells.empty_channel.skipping.outlier_times_sigma",
     "cells.empty_channel.skipping.intensity_range_quotient"}
    \cup (IF EmptyChannelTest(cur, force, profile)
          THEN {"cells.empty_channel.skipping"} ELSE {})

AskedTail(cur, force, binary_profile, width, candidates) ==
    {"cells.otsu_bias", "cells.smoothing.length", "cells.extrema.order"}
    \cup (IF \E i \in DOMAIN candidates : candidates[i][2] - candidates[i][1] > 2
          THEN {"cells.filtering.maximum_brightness"} ELSE {})
    \cup (IF \E i \in DOMAIN candidates :
                /\ candidates[i][2] - candidates[i][1] > 2
                /\ MeanBelow(Slice(binary_profile, candidates[i][1], candidates[i][2]),
                       width, tunable(cur, force, "cells.filtering.maximum_brightness"))
          THEN {"cells.filtering.minimum_prominence"} ELSE {})

find_cells_in_channel(cur, force, img) ==
    LET profile == vertical_mean(img)
        asked_head == AskedHead(cur, force, profile)
    IN  IF SkipsEmpty(cur, force, profile)
        THEN {[NotDetected EXCEPT !.called = TRUE, !.skipped = TRUE,
                                  !.asked = Asked(asked_head)]}
        ELSE
        UNION {
          LET binary_profile ==
                ProfileOfBinaryImage(img, threshold, tunable(cur, force, "cells.otsu_bias"))
          IN UNION {
               {IF found.raised
                THEN [NotDetected EXCEPT !.called = TRUE, !.raised = TRUE,
                        !.asked = Asked(asked_head
                                    \cup AskedTail(cur, force, binary_profile,
                                                   Width(img), <<>>))]
                ELSE
                LET positions == Positions(found.maxima, found.prominence, Len(processed))
                    candidates == Candidates(positions)
                    chosen == SubSeqAt(candidates, {i \in DOMAIN candidates :
                                is_a_cell(cur, force, binary_profile, Width(img),
                                    found.prominence, candidates[i][1], candidates[i][2])})
                IN [called |-> TRUE, raised |-> FALSE, skipped |-> FALSE,
                    profile_of_binary_image |-> binary_profile,
                    maxima |-> found.maxima, prominence |-> found.prominence,
                    positions |-> positions, candidates |-> candidates,
                    cells |-> [i \in 1..Len(chosen) |->
                                  <<chosen[i][1] + 1, chosen[i][2] - 1>>],
                    asked |-> Asked(asked_head
                                \cup AskedTail(cur, force, binary_profile,
                                               Width(img), candidates))]
                : found \in find_extrema_and_prominence(processed,
                                tunable(cur, force, "cells.extrema.order").num)}
               : processed \in ProcessedProfiles(profile)}
          : threshold \in threshold_otsu(img)}

(***************************************************************************)
(* Cell and Cells (mm/cell_detection.py, lines 16-79).                     *)
(* Image.mu_to_pixel (mm/image.py) divides a length in micrometres by the  *)
(* image's calibration, the micrometres per pixel.                         *)
(***************************************************************************)
\* mu_to_pixel(mu) < extent, for a calibration of num / den micrometres per pixel
MuToPixelBelow(calibration, mu, extent) ==
    mu.num * calibration.den < extent * mu.den * calibration.num

Cell(top, bottom) == [local_top |-> top, local_bottom |-> bottom]

LongEnoughOrEqual(cur, force, calibration, b, e) ==
    MuToPixelBelow(calibration, tunable(cur, force, "cells.minimal_length.in_mu"), e - b + 1)

LongEnough(cur, force, calibration, b, e) ==
    MuToPixelBelow(calibration, tunable(cur, force, "cells.minimal_length.in_mu"), e - b)

\* lines 76-79
CellsOf(cur, force, calibration, found) ==
    LET kept == SubSeqAt(found, {i \in DOMAIN found :
                    LongEnough(cur, force, calibration, found[i][1], found[i][2])})
    IN [i \in 1..Len(kept) |-> Cell(kept[i][1], kept[i][2])]

ExtremaIdle == signal = <<>> /\ order = 0 /\ extrema = NoResult

CellsIdle ==
    /\ channel = [channel_image |-> <<>>, calibration_px_to_mu |-> Float(1, 1)]
    /\ bootstrap = FALSE
    /\ detection = NotDetected
    /\ cells_list = <<>>

TunablesIdle == defaults = NoTunables /\ current = NoTunables /\ force_default = FALSE

PrimitivesIdle == args = <<>> /\ result = <<>>

MainIdle ==
    /\ to_process = <<>>
    /\ workerstates = <<>>
    /\ snapshot = <<>>
    /\ walk = 0
    /\ ready = {}
    /\ results = <<>>

FluorescenceIdle ==
    /\ image_fluorescences = <<>>
    /\ original_image_fluorescences = <<>>
    /\ background_fluorescences = <<>>
    /\ channels = 0 - 1

(***************************************************************************)
(* The specification of find_extrema_and_prominence: a call on every       *)
(* non-empty signal and order of the bounds.                               *)
(***************************************************************************)
InitExtrema ==
    /\ pc = "call"
    /\ signal \in SeqsUpTo(SigVals, 1, MaxLen)
    /\ order \in Orders
    /\ extrema = NoResult
    /\ TunablesIdle
    /\ CellsIdle
    /\ PrimitivesIdle
    /\ MainIdle
    /\ FluorescenceIdle

CallFindExtremaAndProminence ==
    /\ pc = "call"
    /\ extrema' \in find_extrema_and_prominence(signal, order)
    /\ pc' = "done"
    /\ UNCHANGED <<signal, order>>
    /\ UNCHANGED tunableVars
    /\ UNCHANGED cellVars
    /\ UNCHANGED primitiveVars
    /\ UNCHANGED <<mainVars, fluorescenceVars>>

NextExtrema == CallFindExtremaAndProminence

SpecExtrema == InitExtrema /\ [][NextExtrema]_vars

(***************************************************************************)
(* The specification of the cell detection: Cells(channel, bootstrap) on   *)
(* every channel image, calibration and set of loaded tunables of the      *)
(* bounds.                                                                 *)
(***************************************************************************)
Images == SeqsUpTo(Rows, 1, MaxRows)

\* the calibrations: 1/2, 1 and 2 micrometres per pixel
Calibrations == {Float(1, 2), Float(1, 1), Float(2, 1)}

\* the loaded tunables: none, or the empty-channel test switched on (given as
\* the integer 1) together with an extrema order of 1 (given as the float 1.0)
Overrides ==
    {NoTunables,
     ("cells.empty_channel.skipping" :> Integer(1)) @@ ("cells.extrema.order" :> Float(1, 1))}

InitCells ==
    /\ pc = "new"
    /\ ExtremaIdle
    /\ PrimitivesIdle
    /\ channel \in [channel_image : Images, calibration_px_to_mu : Calibrations]
    /\ bootstrap \in BOOLEAN
    /\ detection = NotDetected
    /\ cells_list = <<>>
    /\ defaults = NoTunables
    /\ current \in Overrides
    /\ force_default = FALSE
    /\ MainIdle
    /\ FluorescenceIdle

\* Cells.__init__, lines 65-79
CellsInit ==
    /\ pc = "new"
    /\ IF ~bootstrap
       THEN /\ cells_list' = <<>>
            /\ pc' = "built"
            /\ UNCHANGED <<detection, defaults>>
       ELSE \E found \in find_cells_in_channel(current, force_default, channel.channel_image) :
            /\ detection' = found
            /\ cells_list' =
                    IF found.raised THEN <<>>
                    ELSE CellsOf(current, force_default, channel.calibration_px_to_mu, found.cells)
            /\ defaults' = RecordDefaults(defaults,
                    IF Len(found.cells) = 0 THEN found.asked
                    ELSE RecordDefaults(found.asked, Asked({"cells.minimal_length.in_mu"})))
            /\ pc' = IF found.raised THEN "raised" ELSE "built"
    /\ UNCHANGED <<channel, bootstrap, current, force_default>>
    /\ UNCHANGED extremaVars
    /\ UNCHANGED primitiveVars
    /\ UNCHANGED <<mainVars, fluorescenceVars>>

NextCells == CellsInit

Spec == InitCells /\ [][NextCells]_vars

(***************************************************************************)
(* The specification of the cell detection on uniform channel images: an   *)
(* image of one pixel value, negative, zero or positive, of every length   *)
(* and width of the bounds, with the empty-channel test switched on.       *)
(***************************************************************************)
UniformVals == (0 - 2)..2
Widths == {1, 2}

UniformImages ==
    {[i \in 1..n |-> [j \in 1..w |-> v]] : n \in 1..MaxRows, w \in Widths, v \in UniformVals}

\* the empty-channel test switched on, given as True or as the integer 1,
\* alone or together with an extrema order of 1
SkippingOverrides ==
    {("cells.empty_channel.skipping" :> Boolean(TRUE)),
     ("cells.empty_channel.skipping" :> Integer(1)) @@ ("cells.extrema.order" :> Float(1, 1))}

InitUniform ==
    /\ pc = "new"
    /\ ExtremaIdle
    /\ PrimitivesIdle
    /\ channel \in [channel_image : UniformImages, calibration_px_to_mu : Calibrations]
    /\ bootstrap = TRUE
    /\ detection = NotDetected
    /\ cells_list = <<>>
    /\ defaults = NoTunables
    /\ current \in SkippingOverrides
    /\ force_default = FALSE
    /\ MainIdle
    /\ FluorescenceIdle

SpecUniform == InitUniform /\ [][NextCells]_vars

(***************************************************************************)
(* Claims about find_extrema_and_prominence.                               *)
(***************************************************************************)
Ascending(ext, n) ==
    /\ Len(ext) >= 1
    /\ \A i \in 1..Len(ext) : 0 <= ext[i] /\ ext[i] <= n - 1
    /\ \A i \in 1..(Len(ext) - 1) : ext[i] < ext[i + 1]

\* C1: a call on a signal of length N returns max and min envelopes and a
\* prominence of length exactly N, prominence[i] being the difference
\* max_envelope[i] - min_envelope[i] at every i, and maxima and minima that are
\* non-empty, strictly ascending (sorted, no duplicates) and within [0, N-1].
C1_ResultShape ==
    pc = "done" =>
        /\ Len(extrema.max_spline_points) = Len(signal)
        /\ Len(extrema.min_spline_points) = Len(signal)
        /\ Len(extrema.prominence) = Len(signal)
        /\ \A i \in 1..Len(signal) :
            extrema.prominence[i] =
                FSub(extrema.max_spline_points[i], extrema.min_spline_points[i])
        /\ Ascending(extrema.maxima, Len(signal))
        /\ Ascending(extrema.minima, Len(signal))

\* a call that found two maxima, fitted a non-constant max envelope and
\* returned a prominence that is zero at one position and positive at another
C1_Witness ==
    /\ pc = "done"
    /\ Len(extrema.maxima) = 2
    /\ ~AllEqual(extrema.max_spline_points)
    /\ \E i \in 1..Len(signal) : extrema.prominence[i] = 0
    /\ \E i \in 1..Len(signal) : FGt(extrema.prominence[i], 0)

\* C2: no call raises, whatever the signal (short, flat, monotonic) and the
\* order (below 1, or at least the length): every call has a result to
\* return and the result it returns is complete.
C2_NeverRaises ==
    /\ pc = "call" =>
        /\ find_extrema_and_prominence(signal, order) # {}
        /\ \A r \in find_extrema_and_prominence(signal, order) : ~r.raised
    /\ pc = "done" =>
        /\ ~extrema.raised
        /\ Len(extrema.prominence) = Len(signal)

\* a flat signal of length 1 called with an order below 1 has returned
C2_Witness ==
    /\ pc = "done"
    /\ Len(signal) = 1
    /\ order < 1
    /\ ~extrema.raised
    /\ Len(extrema.prominence) = 1

\* the largest order from the requested one down to 1 at which the
\* neighbourhood comparison finds a maximum (a minimum), 0 when none does
RetryOrderMax(s, ord) ==
    LET good == {j \in 1..ord : Len(relative_maxima(s, j)) > 0}
    IN IF good = {} THEN 0 ELSE CHOOSE j \in good : \A h \in good : h <= j

RetryOrderMin(s, ord) ==
    LET good == {j \in 1..ord : Len(relative_minima(s, j)) > 0}
    IN IF good = {} THEN 0 ELSE CHOOSE j \in good : \A h \in good : h <= j

\* C3: the maxima are those of the neighbourhood comparison at the requested
\* order, or, when there are none, at the next lower order that has some, down
\* to order 1; the global maximum is used only when no order from the
\* requested one down to 1 has a maximum.  Minima likewise.
C3_RetryThenFallback ==
    pc = "done" =>
        /\ extrema.maxima =
            IF RetryOrderMax(signal, order) = 0 THEN <<Argmax(signal)>>
            ELSE relative_maxima(signal, RetryOrderMax(signal, order))
        /\ extrema.minima =
            IF RetryOrderMin(signal, order) = 0 THEN <<Argmin(signal)>>
            ELSE relative_minima(signal, RetryOrderMin(signal, order))

\* C4: the control sequence of each extremum type has len(extrema) + 2
\* points, x = (0, extrema..., N-1) and y = (signal[first extremum],
\* signal[extrema]..., signal[last extremum]): the boundary y values are those
\* of the first and the last extremum, not signal[0] and signal[N-1].
Anchored(cx, cy, ext, s) ==
    /\ Len(cx) = Len(ext) + 2
    /\ Len(cy) = Len(ext) + 2
    /\ cx[1] = 0
    /\ cx[Len(cx)] = Len(s) - 1
    /\ \A i \in 1..Len(ext) : cx[i + 1] = ext[i] /\ cy[i + 1] = At(s, ext[i])
    /\ cy[1] = At(s, ext[1])
    /\ cy[Len(cy)] = At(s, ext[Len(ext)])

C4_AnchoredControl ==
    pc = "done" =>
        /\ Anchored(extrema.maximaintpx, extrema.maximaintpy, extrema.maxima, signal)
        /\ Anchored(extrema.minimaintpx, extrema.minimaintpy, extrema.minima, signal)

\* a call whose boundary samples differ from the values at the first and the
\* last maximum
C4_Witness ==
    /\ pc = "done"
    /\ Len(extrema.maxima) = 2
    /\ extrema.maximaintpy[1] # At(signal, 0)
    /\ extrema.maximaintpy[Len(extrema.maximaintpy)] # At(signal, Len(signal) - 1)
    /\ extrema.maximaintpy[1] # extrema.maximaintpy[Len(extrema.maximaintpy)]

Min2(a, b) == IF a < b THEN a ELSE b

DegreeRule(k, cx) == k = Min2(3, Len(cx) - 1)

IsDegenerate(r) ==
    \/ r.kmax < 1
    \/ r.kmin < 1
    \/ \E i \in DOMAIN r.max_spline_points : r.max_spline_points[i] = PosInf
    \/ \E i \in DOMAIN r.min_spline_points : r.min_spline_points[i] = NegInf

\* C5 as amended: each envelope is fitted with degree
\* k = min(3, control point count - 1); the count is at least 3, so k is 2 or
\* 3, and no call returns the degenerate +infinity / -infinity envelope.
C5_DegreeNeverDegenerate ==
    pc = "done" =>
        /\ DegreeRule(extrema.kmax, extrema.maximaintpx)
        /\ DegreeRule(extrema.kmin, extrema.minimaintpx)
        /\ extrema.kmax \in {2, 3}
        /\ extrema.kmin \in {2, 3}
        /\ ~IsDegenerate(extrema)

\* a call that fitted one envelope with degree 2 and the other with degree 3
C5_Witness ==
    /\ pc = "done"
    /\ extrema.kmax = 2
    /\ extrema.kmin = 3
    /\ \A i \in 1..Len(signal) : IsFinite(extrema.min_spline_points[i])

\* C5 as stated: the degree rule, the degenerate envelope for k < 1, and
\* some input signal that reaches the degenerate envelope.
C5_SomeInputDegenerate ==
    /\ pc = "done" =>
        /\ DegreeRule(extrema.kmax, extrema.maximaintpx)
        /\ DegreeRule(extrema.kmin, extrema.minimaintpx)
        /\ extrema.kmax < 1 =>
            extrema.max_spline_points = ConstSeq(Len(signal), PosInf)
        /\ extrema.kmin < 1 =>
            extrema.min_spline_points = ConstSeq(Len(signal), NegInf)
    /\ pc = "done" =>
        \E s \in SeqsUpTo(SigVals, 1, MaxLen), o \in Orders :
            \E r \in find_extrema_and_prominence(s, o) : IsDegenerate(r)

(***************************************************************************)
(* Claims about find_cells_in_channel and Cells.                           *)
(***************************************************************************)
\* a call of the detector that went past the empty-channel test and returned
Detected == pc = "built" /\ bootstrap /\ detection.called /\ ~detection.skipped

MaximumBrightness == tunable(current, force_default, "cells.filtering.maximum_brightness")
MinimumProminence == tunable(current, force_default, "cells.filtering.minimum_prominence")

\* the three conditions on the segment [a, b) of the profile, with the means
\* written as sums: a mean that is NaN compares false
SegmentAccepted(a, b) ==
    /\ b - a > 2
    /\ SumSeq(Slice(detection.profile_of_binary_image, a, b)) * MaximumBrightness.den
            < MaximumBrightness.num * Width(channel.channel_image) * (b - a)
    /\ LET total == FSum(Slice(detection.prominence, a, b))
       IN /\ total # NaN
          /\ total * MinimumProminence.den > MinimumProminence.num * (b - a)

RECURSIVE EmittedOf(_)
EmittedOf(segments) ==
    IF Len(segments) = 0 THEN <<>>
    ELSE (IF SegmentAccepted(segments[1][1], segments[1][2])
          THEN << <<segments[1][1] + 1, segments[1][2] - 1>> >>
          ELSE <<>>) \o EmittedOf(Tail(segments))

\* C6: find_cells_in_channel accepts a candidate segment (last_pos, pos) if
\* and only if pos - last_pos > 2, the mean of the binarized profile over
\* [last_pos, pos) is strictly below cells.filtering.maximum_brightness and
\* the mean prominence over it is strictly above
\* cells.filtering.minimum_prominence; each accepted segment is emitted as
\* exactly [last_pos + 1, pos - 1], rejected segments emit nothing.
C6_SegmentFilter ==
    Detected => detection.cells = EmittedOf(detection.candidates)

\* a call with two candidate segments longer than 2 of which exactly one was
\* emitted, trimmed by one pixel on each side
C6_Witness ==
    /\ Detected
    /\ Len(detection.candidates) = 2
    /\ \A i \in 1..2 : detection.candidates[i][2] - detection.candidates[i][1] > 2
    /\ Len(detection.cells) = 1
    /\ \E i \in 1..2 : detection.cells[1] =
            <<detection.candidates[i][1] + 1, detection.candidates[i][2] - 1>>

\* the maxima whose prominence at their index is strictly positive
PositiveMaxima ==
    {detection.maxima[i] : i \in
        {j \in DOMAIN detection.maxima :
            FGt(At(detection.prominence, detection.maxima[j]), 0)}}

\* C7: the candidate split points are exactly the maxima whose prominence at
\* that index is strictly positive, in ascending order, followed by the
\* sentinel profile.size; the candidate segments are the consecutive pairs of
\* (0, split points...): m positive-prominence maxima give m + 1 segments
\* that tile [0, profile.size).
C7_SplitPoints ==
    Detected =>
        LET p == detection.positions
            c == detection.candidates
            size == Len(detection.prominence)
            m == Cardinality(PositiveMaxima)
        IN /\ Len(p) = m + 1
           /\ p[m + 1] = size
           /\ {p[i] : i \in 1..m} = PositiveMaxima
           /\ \A i \in 1..m : p[i] < p[i + 1]
           /\ Len(c) = m + 1
           /\ c[1][1] = 0
           /\ c[m + 1][2] = size
           /\ \A i \in 1..(m + 1) : c[i][2] = p[i] /\ c[i][1] <= c[i][2]
           /\ \A i \in 1..m : c[i + 1][1] = c[i][2]

\* a call that found two maxima of positive prominence and so three segments
C7_Witness ==
    /\ Detected
    /\ Cardinality(PositiveMaxima) = 2
    /\ Len(detection.candidates) = 3
    /\ detection.positions[3] = Len(channel.channel_image)

\* cells.empty_channel.skipping as loaded, False when it is not
SkippingEnabled ==
    /\ ~force_default
    /\ "cells.empty_channel.skipping" \in DOMAIN current
    /\ current["cells.empty_channel.skipping"].num # 0

\* (max - min) / max of the mean profile clamped at two standard deviations
\* is strictly below the default quotient 1/2
QuotientBelowHalf ==
    LET profile == vertical_mean(channel.channel_image)
    IN RangeQuotientBelow(threshold_outliers(profile, Float(2, 1)),
                          Radicand(profile, Float(2, 1)), Float(1, 2))

\* C8: find_cells_in_channel returns the empty list through the empty-channel
\* short-circuit if and only if cells.empty_channel.skipping is enabled and
\* (max - min) / max of the outlier-clamped mean profile is strictly below
\* cells.empty_channel.skipping.intensity_range_quotient; with the default
\* configuration the short-circuit is never taken, whatever the profile.
C8_ShortCircuit ==
    (pc = "built" /\ bootstrap) =>
        /\ detection.skipped <=> (SkippingEnabled /\ QuotientBelowHalf)
        /\ detection.skipped => detection.cells = <<>>
        /\ current = NoTunables => ~detection.skipped

\* a call on an image of several rows that took the short-circuit
C8_Witness ==
    /\ pc = "built"
    /\ bootstrap
    /\ detection.skipped
    /\ detection.cells = <<>>
    /\ Len(channel.channel_image) > 2
    /\ SkippingEnabled
    /\ QuotientBelowHalf

\* C9: on every uniform channel image (all pixels one value v, zero and
\* negative v included), find_cells_in_channel with
\* cells.empty_channel.skipping enabled and the default quotient 0.5 returns
\* an empty cell list.
C9_UniformImageNoCells ==
    (pc # "new" /\ SkippingEnabled
        /\ \E v \in UniformVals : Pixels(channel.channel_image) = {v}) =>
        /\ pc = "built"
        /\ detection.called
        /\ ~detection.raised
        /\ detection.cells = <<>>
        /\ cells_list = <<>>

\* a call on an image of zeros, three rows at least, whose range quotient is
\* 0 / 0: it is not short-circuited, and returns no cell
C9_Witness ==
    /\ pc = "built"
    /\ SkippingEnabled
    /\ Pixels(channel.channel_image) = {0}
    /\ Len(channel.channel_image) > 2
    /\ detection.called
    /\ ~detection.skipped
    /\ detection.cells = <<>>

\* mu_to_pixel(cells.minimal_length.in_mu) < e - b
MinimalLength == tunable(current, force_default, "cells.minimal_length.in_mu")

ExtentExceedsMinimum(b, e) ==
    MinimalLength.num * channel.calibration_px_to_mu.den
        < (e - b) * MinimalLength.den * channel.calibration_px_to_mu.num

RECURSIVE KeptOf(_)
KeptOf(pairs) ==
    IF Len(pairs) = 0 THEN <<>>
    ELSE (IF ExtentExceedsMinimum(pairs[1][1], pairs[1][2])
          THEN <<[local_top |-> pairs[1][1], local_bottom |-> pairs[1][2]]>>
          ELSE <<>>) \o KeptOf(Tail(pairs))

\* C10: Cells(channel) built with bootstrap holds exactly one Cell, in
\* detector order, for each pair [b, e] returned by find_cells_in_channel with
\* mu_to_pixel(cells.minimal_length.in_mu) < e - b (strict), with
\* local_top = b and local_bottom = e, and no other cells;
\* Cells(channel, bootstrap=False) holds no cells and does not run the
\* detector.
C10_CellsOfChannel ==
    /\ (pc = "built" /\ bootstrap) =>
        /\ detection.called
        /\ cells_list = KeptOf(detection.cells)
    /\ (pc = "built" /\ ~bootstrap) =>
        /\ cells_list = <<>>
        /\ ~detection.called
        /\ defaults = NoTunables

\* a channel whose detector returned two pairs, both longer than the minimal
\* length at the channel's calibration and both kept, in the detector's order
C10_Witness ==
    /\ pc = "built"
    /\ bootstrap
    /\ Len(detection.cells) = 2
    /\ Len(cells_list) = 2
    /\ cells_list[1].local_top = detection.cells[1][1]
    /\ cells_list[2].local_bottom = detection.cells[2][2]
    /\ cells_list[1].local_bottom < cells_list[2].local_top

(***************************************************************************)
(* The outlier primitives of generic/signal.py: threshold_outliers (lines  *)
(* 335-353), outliers (356-367) and remove_outliers (370-384).  An array   *)
(* is its dtype, "int", "float" or "str", and its values.                  *)
(***************************************************************************)
MaxData == 4

DataVals == 0..3
Strings == {"a", "b"}
TimesStd == {Float(0 - 1, 1), Float(0, 1), Float(1, 2), Float(1, 1), Float(2, 1)}

NumericArrays == [dtype : {"int", "float"}, values : SeqsUpTo(DataVals, 1, MaxData)]
StringArrays == [dtype : {"str"}, values : SeqsUpTo(Strings, 1, 2)]

\* the values of a numeric array over the scale of threshold_outliers
Scaled(data, times_std) ==
    [i \in 1..Len(data) |-> Surd(2 * Len(data) * times_std.den * data[i], 0)]

\* threshold_outliers without the copy of line 348
ThresholdOutliersInPlace(array, times_std) ==
    [raised |-> "",
     data |-> threshold_outliers_as(array.dtype, array.values, times_std),
     returned |-> threshold_outliers_as(array.dtype, array.values, times_std)]

\* a call of threshold_outliers: the caller's array after the call and the
\* array returned
ThresholdOutliersCall(array, times_std) ==
    [raised |-> "",
     data |-> Scaled(array.values, times_std),
     returned |-> threshold_outliers_as(array.dtype, array.values, times_std)]

\* line 367 with the absolute value left out
OutliersAboveOnly(array, times_std) ==
    LET n == Len(array.values)
        q == Radicand(array.values, times_std)
        median == Surd(n * times_std.den * TwiceMedian(array.values), 0)
        spread == Surd(0, Sgn(times_std.num))
        copy == Scaled(array.values, times_std)
    IN [raised |-> "",
        mask |-> [i \in 1..n |->
            SurdSign(SurdSub(SurdSub(copy[i], median), spread), q) > 0]]

\* line 367; the median of an array of strings is a TypeError
outliers(array, times_std) ==
    IF array.dtype = "str" THEN [raised |-> "TypeError", mask |-> <<>>]
    ELSE
    LET n == Len(array.values)
        q == Radicand(array.values, times_std)
        median == Surd(n * times_std.den * TwiceMedian(array.values), 0)
        spread == Surd(0, Sgn(times_std.num))
        copy == Scaled(array.values, times_std)
    IN [raised |-> "",
        mask |-> [i \in 1..n |->
            SurdSign(SurdSub(SurdAbs(SurdSub(copy[i], median), q), spread), q) > 0]]

\* remove_outliers without the handler of lines 383-384
RemoveOutliersUncaught(array, times_std) ==
    LET flagged == outliers(array, times_std)
    IN IF flagged.raised # ""
       THEN [raised |-> flagged.raised, returned |-> array, is_input |-> FALSE]
       ELSE [raised |-> "",
             returned |-> [dtype |-> array.dtype,
                           values |-> SubSeqAt(array.values,
                                {i \in DOMAIN array.values : ~flagged.mask[i]})],
             is_input |-> FALSE]

\* lines 381-384: is_input tells that the object returned is the argument
remove_outliers(array, times_std) ==
    LET flagged == outliers(array, times_std)
    IN IF flagged.raised = "TypeError"
       THEN [raised |-> "", returned |-> array, is_input |-> TRUE]
       ELSE [raised |-> "",
             returned |-> [dtype |-> array.dtype,
                           values |-> SubSeqAt(array.values,
                                {i \in DOMAIN array.values : ~flagged.mask[i]})],
             is_input |-> FALSE]

InitOutliers ==
    /\ pc = "call"
    /\ args \in [fn : {"threshold_outliers", "outliers"},
                 data : NumericArrays, times_std : TimesStd]
            \cup [fn : {"remove_outliers"},
                  data : NumericArrays \cup StringArrays, times_std : TimesStd]
    /\ result = <<>>
    /\ ExtremaIdle
    /\ TunablesIdle
    /\ CellsIdle
    /\ MainIdle
    /\ FluorescenceIdle

CallThresholdOutliers ==
    /\ pc = "call"
    /\ args.fn = "threshold_outliers"
    /\ result' = ThresholdOutliersCall(args.data, args.times_std)
    /\ pc' = "done"
    /\ UNCHANGED <<args, extremaVars, tunableVars, cellVars>>
    /\ UNCHANGED <<mainVars, fluorescenceVars>>

CallOutliers ==
    /\ pc = "call"
    /\ args.fn = "outliers"
    /\ result' = outliers(args.data, args.times_std)
    /\ pc' = "done"
    /\ UNCHANGED <<args, extremaVars, tunableVars, cellVars>>
    /\ UNCHANGED <<mainVars, fluorescenceVars>>

CallRemoveOutliers ==
    /\ pc = "call"
    /\ args.fn = "remove_outliers"
    /\ result' = remove_outliers(args.data, args.times_std)
    /\ pc' = "done"
    /\ UNCHANGED <<args, extremaVars, tunableVars, cellVars>>
    /\ UNCHANGED <<mainVars, fluorescenceVars>>

NextOutliers == CallThresholdOutliers \/ CallOutliers \/ CallRemoveOutliers

SpecOutliers == InitOutliers /\ [][NextOutliers]_vars

(***************************************************************************)
(* Claims about the outlier primitives.  With n = len(data) and            *)
(* times_std = tn / td the numbers are compared over the scale             *)
(* 2 * n * td: Deviation(i) is data[i] - median and Spread is              *)
(* times_std * std, both times that scale.                                 *)
(***************************************************************************)
ArgQ == Radicand(args.data.values, args.times_std)
ArgScale == 2 * Len(args.data.values) * args.times_std.den
ArgMedian == Surd(Len(args.data.values) * args.times_std.den * TwiceMedian(args.data.values), 0)
Spread == Surd(0, Sgn(args.times_std.num))
Value(i) == Surd(ArgScale * args.data.values[i], 0)
Deviation(i) == SurdSub(Value(i), ArgMedian)

SurdEq(u, v) == SurdSign(SurdSub(u, v), ArgQ) = 0
SurdGt(u, v) == SurdSign(SurdSub(u, v), ArgQ) > 0

UpperBound == Surd(ArgMedian.a, Spread.b)
LowerBound == Surd(ArgMedian.a, 0 - Spread.b)

AboveUpper(i) == SurdGt(Deviation(i), Spread)
BelowLower(i) ==
    /\ SurdSign(Deviation(i), ArgQ) < 0
    /\ SurdGt(SurdAbs(Deviation(i), ArgQ), Spread)

ThresholdDone == pc = "done" /\ args.fn = "threshold_outliers"

InputKept ==
    /\ Len(result.data) = Len(args.data.values)
    /\ \A i \in DOMAIN args.data.values : SurdEq(result.data[i], Value(i))

Flagged(i) ==
    LET d == Len(args.data.values) * args.times_std.den
                * (2 * args.data.values[i] - TwiceMedian(args.data.values))
    IN IF args.times_std.num < 0 /\ ArgQ > 0 THEN TRUE ELSE d * d > ArgQ

RECURSIVE Unflagged(_)
Unflagged(i) ==
    IF i > Len(args.data.values) THEN <<>>
    ELSE (IF Flagged(i) THEN <<>> ELSE <<args.data.values[i]>>) \o Unflagged(i + 1)

\* C12: outliers(data, t)[i] is true exactly when
\* |data[i] - median(data)| > t * std(data), and remove_outliers(data, t) is
\* the subsequence of data, in the original order, of exactly the entries
\* whose flag is false, so its length is N less the number of flagged entries.
C12_MaskAndRemoval ==
    /\ (pc = "done" /\ args.fn = "outliers") =>
        /\ result.raised = ""
        /\ Len(result.mask) = Len(args.data.values)
        /\ \A i \in DOMAIN args.data.values : result.mask[i] <=> Flagged(i)
    /\ (pc = "done" /\ args.fn = "remove_outliers" /\ args.data.dtype # "str") =>
        /\ result.raised = ""
        /\ result.returned.values = Unflagged(1)
        /\ Len(result.returned.values) = Len(args.data.values)
                - Cardinality({i \in DOMAIN args.data.values : Flagged(i)})

\* a call of remove_outliers that removed a value below the median and kept
\* two values
C12_Witness ==
    /\ pc = "done"
    /\ args.fn = "remove_outliers"
    /\ args.data.dtype # "str"
    /\ Len(result.returned.values) = 2
    /\ \E i \in DOMAIN args.data.values :
        Flagged(i) /\ 2 * args.data.values[i] < TwiceMedian(args.data.values)

\* C13: remove_outliers on input for which the outlier computation fails
\* with a type error (non-numeric data) returns the very input it was given,
\* unchanged, and does not raise.
C13_TypeErrorReturnsInput ==
    (pc = "done" /\ args.fn = "remove_outliers"
        /\ outliers(args.data, args.times_std).raised = "TypeError") =>
        /\ result.raised = ""
        /\ result.is_input
        /\ result.returned = args.data

\* a call on an array of two strings
C13_Witness ==
    /\ pc = "done"
    /\ args.fn = "remove_outliers"
    /\ args.data.dtype = "str"
    /\ Len(args.data.values) = 2
    /\ result.raised = ""
    /\ result.is_input
    /\ result.returned = args.data

(***************************************************************************)
(* find_phase (generic/signal.py, lines 17-64).  fft and ifft come from    *)
(* generic/fft.py: the inverse transform of the product of one transform   *)
(* with the conjugate of the other is the circular cross-correlation of    *)
(* the two signals, which line 49 negates and line 51 takes the magnitude  *)
(* of.                                                                     *)
(***************************************************************************)
MaxPhaseLen == 5

PhaseVals == {0, 1}
PhaseSignals(n) == [1..n -> PhaseVals]

\* lines 44-49: corr[k] = - sum over j of signal_1[(j + k) mod N] * signal_2[j]
CircularCorrelation(signal_1, signal_2) ==
    LET n == Len(signal_1)
    IN [k \in 1..n |->
            0 - SumSeq([j \in 1..n |->
                    signal_1[((j - 1 + k - 1) % n) + 1] * signal_2[j]])]

\* line 51
Absolute(s) == [i \in DOMAIN s |-> IF s[i] < 0 THEN 0 - s[i] ELSE s[i]]

\* line 57 with <= in place of <
PhaseShiftInclusive(the_max, n) ==
    IF 2 * the_max <= n THEN 0 - the_max ELSE n - the_max

\* line 57 with the sign of the first branch lost
PhaseShiftUnsigned(the_max, n) ==
    IF 2 * the_max < n THEN the_max ELSE n - the_max

\* line 57: the_max < len(fft_1) / 2 is a true division
PhaseShift(the_max, n) ==
    IF 2 * the_max < n THEN 0 - the_max ELSE n - the_max

\* lines 44-64, return_1 and return_2 left False: the tuple returned, with
\* the peak index and the transform length it was computed from
find_phase(signal_1, signal_2) ==
    LET corr == Absolute(CircularCorrelation(signal_1, signal_2))
        the_max == Argmax(corr)
    IN [raised |-> "",
        peak |-> the_max,
        length |-> Len(signal_1),
        returned |-> <<PhaseShift(the_max, Len(signal_1))>>]

InitPhase ==
    /\ pc = "call"
    /\ \E n \in 1..MaxPhaseLen :
        args \in [fn : {"find_phase"}, signal_1 : PhaseSignals(n), signal_2 : PhaseSignals(n)]
    /\ result = <<>>
    /\ ExtremaIdle
    /\ TunablesIdle
    /\ CellsIdle
    /\ MainIdle
    /\ FluorescenceIdle

CallFindPhase ==
    /\ pc = "call"
    /\ args.fn = "find_phase"
    /\ result' = find_phase(args.signal_1, args.signal_2)
    /\ pc' = "done"
    /\ UNCHANGED <<args, extremaVars, tunableVars, cellVars>>
    /\ UNCHANGED <<mainVars, fluorescenceVars>>

NextPhase == CallFindPhase

SpecPhase == InitPhase /\ [][NextPhase]_vars

(***************************************************************************)
(* Claims about find_phase.                                                *)
(***************************************************************************)
\* s is a unit impulse at the Python index a
ImpulseAt(s, a) == \A i \in DOMAIN s : s[i] = (IF i = a + 1 THEN 1 ELSE 0)

InHalfOpenRange(shift, n) == 0 - n < 2 * shift /\ 2 * shift <= n

\* C14: find_phase maps the index m of the first largest correlation
\* magnitude to shift = -m when m < N / 2 and to shift = N - m otherwise, so
\* for every N >= 1 and every m in [0, N-1] the shift is an integer in
\* (-N/2, N/2] and m is (-shift) mod N.
C14_ShiftOfPeak ==
    pc = "done" =>
        LET m == result.peak
            n == result.length
            shift == result.returned[1]
        IN /\ n = Len(args.signal_1)
           /\ m \in 0..(n - 1)
           /\ shift = (IF 2 * m < n THEN 0 - m ELSE n - m)
           /\ InHalfOpenRange(shift, n)
           /\ (0 - shift) % n = m

\* a call on signals of even length whose peak is at exactly N / 2
C14_Witness ==
    /\ pc = "done"
    /\ result.length = 4
    /\ result.peak = 2
    /\ result.returned = <<2>>

\* C15: for two length-N unit impulses at positions a and b, find_phase
\* returns the circular displacement (b - a) reduced to (-N/2, N/2]; in
\* particular find_phase([0,1,0,0,0], [0,0,0,1,0]) returns 2, and swapping the
\* signals negates the result whenever the displacement is not exactly N / 2.
C15_ImpulseDisplacement ==
    pc = "done" =>
        \A a, b \in 0..(Len(args.signal_1) - 1) :
            (ImpulseAt(args.signal_1, a) /\ ImpulseAt(args.signal_2, b)) =>
                LET n == Len(args.signal_1)
                    shift == result.returned[1]
                    swapped == find_phase(args.signal_2, args.signal_1).returned[1]
                IN /\ (shift - (b - a)) % n = 0
                   /\ InHalfOpenRange(shift, n)
                   /\ (a = 1 /\ b = 3 /\ n = 5) => shift = 2
                   /\ 2 * shift # n => swapped = 0 - shift
                   /\ 2 * shift = n => swapped = shift

\* the call of the doctest, lines 40-41
C15_Witness ==
    /\ pc = "done"
    /\ args.signal_1 = <<0, 1, 0, 0, 0>>
    /\ args.signal_2 = <<0, 0, 0, 1, 0>>
    /\ result.returned = <<2>>

(***************************************************************************)
(* one_every_n (generic/signal.py, lines 414-431), normalize (284-300)     *)
(* and fit_to_type (304-331).  A floating-point value is a fraction        *)
(* num / den in lowest terms with den > 0, and 0 / 0 is NaN.               *)
(***************************************************************************)
MaxCount == 6
MaxStep == 3
MaxArray == 3

Shifts == (0 - 4)..4
ArrayVals == (0 - 1)..2

\* Python's a % n for n > 0: the remainder has the sign of n
PyMod(a, n) == a - n * (a \div n)

\* numpy.arange(start, stop, step) for step > 0
Arange(start, stop, step) ==
    {start + k * step : k \in {j \in 0..(IF stop > start THEN stop - start ELSE 0) :
                                    start + j * step < stop}}

\* lines 427-431 with the reduction of shift left out: an index below zero
\* counts from the end of the array
OneEveryNUnreduced(length, n, shift) ==
    LET indices == {i \in Arange(shift, length, n) : i < length}
    IN [i \in 1..length |->
            IF (i - 1) \in indices \/ (i - 1 - length) \in indices THEN 1 ELSE 0]

\* lines 427-431
one_every_n(length, n, shift) ==
    LET indices == {i \in Arange(PyMod(shift, n), length, n) : i < length}
    IN [i \in 1..length |-> IF (i - 1) \in indices THEN 1 ELSE 0]

RECURSIVE Gcd(_, _)
Gcd(a, b) == IF b = 0 THEN a ELSE Gcd(b, a % b)

FNaN == [num |-> 0, den |-> 0]

\* num / den in floating point, den >= 0: 0 / 0 is NaN
Frac(num, den) ==
    IF den = 0 THEN FNaN
    ELSE LET g == Gcd(IF num < 0 THEN 0 - num ELSE num, den)
         IN [num |-> num \div g, den |-> den \div g]

FracLess(u, v) == u # FNaN /\ v # FNaN /\ u.num * v.den < v.num * u.den

\* u - v and u / v for v >= 0
FracSub(u, v) ==
    IF u = FNaN \/ v = FNaN THEN FNaN
    ELSE Frac(u.num * v.den - v.num * u.den, u.den * v.den)

FracDiv(u, v) ==
    IF u = FNaN \/ v = FNaN THEN FNaN ELSE Frac(u.num * v.den, u.den * v.num)

\* numpy's min and max: NaN when the array holds a NaN
FracMin(s) ==
    IF \E i \in DOMAIN s : s[i] = FNaN THEN FNaN
    ELSE s[CHOOSE i \in DOMAIN s : \A j \in DOMAIN s : ~FracLess(s[j], s[i])]

FracMax(s) ==
    IF \E i \in DOMAIN s : s[i] = FNaN THEN FNaN
    ELSE s[CHOOSE i \in DOMAIN s : \A j \in DOMAIN s : ~FracLess(s[i], s[j])]

\* an array of the given dtype; its values are kept as fractions
Array(dtype, values) ==
    [dtype |-> dtype, values |-> [i \in DOMAIN values |-> Frac(values[i], 1)]]

\* normalize working on the caller's array, as astype(float, copy=False)
\* does on a floating-point array
NormalizeInPlace(data) ==
    LET shifted == [i \in DOMAIN data.values |->
                        FracSub(data.values[i], FracMin(data.values))]
        scaled == [i \in DOMAIN shifted |-> FracDiv(shifted[i], FracMax(shifted))]
    IN [raised |-> "",
        data |-> [dtype |-> "float", values |-> scaled],
        returned |-> [dtype |-> "float", values |-> scaled]]

\* lines 297-300: the caller's array after the call, and the array returned
normalize(data) ==
    LET shifted == [i \in DOMAIN data.values |->
                        FracSub(data.values[i], FracMin(data.values))]
        scaled == [i \in DOMAIN shifted |-> FracDiv(shifted[i], FracMax(shifted))]
    IN [raised |-> "",
        data |-> data,
        returned |-> [dtype |-> "float", values |-> scaled]]

\* numpy.dtype(new_dtype), line 321: the kind and the size in bytes
Dtypes ==
    {[name |-> "float32", kind |-> "f", itemsize |-> 4],
     [name |-> "uint8", kind |-> "u", itemsize |-> 1],
     [name |-> "int8", kind |-> "i", itemsize |-> 1],
     [name |-> "int16", kind |-> "i", itemsize |-> 2],
     [name |-> "bool", kind |-> "b", itemsize |-> 1],
     [name |-> "complex64", kind |-> "c", itemsize |-> 8],
     [name |-> "str", kind |-> "U", itemsize |-> 0],
     [name |-> "object", kind |-> "O", itemsize |-> 8],
     [name |-> "datetime64", kind |-> "M", itemsize |-> 8]}

\* line 331: the words of the message of the TypeError
UnsupportedMessage ==
    <<"Unsupported", "new_dtype", "value", "used", "for",
      "rescale_and_fit_to_type", "used!">>

\* astype of a float to an integer type truncates towards zero; the
\* conversion of NaN is undefined, `nan_as` is what the platform makes of it
ToInteger(u, nan_as) == IF u = FNaN THEN nan_as ELSE Trunc(u.num, u.den)

FracScale(c, u) == IF u = FNaN THEN FNaN ELSE Frac(c * u.num, u.den)

\* fit_to_type with the bool branch taken for every kind left over
FitToTypeLenient(image, to_type) ==
    LET scaled_img == normalize(image).returned.values
    IN {[raised |-> "", message |-> <<>>, data |-> image,
         returned |-> [i \in DOMAIN scaled_img |->
                            FracLess(Frac(1, 2), scaled_img[i])]]}

\* lines 320-331: the results the call may have
fit_to_type(image, to_type) ==
    LET scaled_img == normalize(image).returned.values
        full == 2 ^ (to_type.itemsize * 8) - 1
        half == 2 ^ (to_type.itemsize * 8 - 1)
    IN IF to_type.kind = "f"
       THEN {[raised |-> "", message |-> <<>>, data |-> image,
              returned |-> image.values]}
       ELSE IF to_type.kind = "u"
       THEN {[raised |-> "", message |-> <<>>, data |-> image,
              returned |-> [i \in DOMAIN scaled_img |->
                    ToInteger(FracScale(full, scaled_img[i]), nan_as)]] :
                nan_as \in {0, full}}
       ELSE IF to_type.kind = "i"
       THEN {[raised |-> "", message |-> <<>>, data |-> image,
              returned |-> [i \in DOMAIN scaled_img |->
                    ToInteger(FracSub(FracScale(full, scaled_img[i]), Frac(half, 1)),
                              nan_as)]] :
                nan_as \in {0, 0 - half}}
       ELSE IF to_type.kind = "b"
       THEN {[raised |-> "", message |-> <<>>, data |-> image,
              returned |-> [i \in DOMAIN scaled_img |->
                    FracLess(Frac(1, 2), scaled_img[i])]]}
       ELSE {[raised |-> "TypeError", message |-> UnsupportedMessage,
              data |-> image, returned |-> <<>>]}

Images1D == {Array(dtype, values) :
                dtype \in {"int", "float"}, values \in SeqsUpTo(ArrayVals, 1, MaxArray)}

InitArrays ==
    /\ pc = "call"
    /\ args \in [fn : {"one_every_n"}, length : 0..MaxCount, n : 1..MaxStep, shift : Shifts]
            \cup [fn : {"normalize"}, data : Images1D]
            \cup [fn : {"fit_to_type"}, image : Images1D, new_dtype : Dtypes]
    /\ result = <<>>
    /\ ExtremaIdle
    /\ TunablesIdle
    /\ CellsIdle
    /\ MainIdle
    /\ FluorescenceIdle

CallOneEveryN ==
    /\ pc = "call"
    /\ args.fn = "one_every_n"
    /\ result' = [raised |-> "", returned |-> one_every_n(args.length, args.n, args.shift)]
    /\ pc' = "done"
    /\ UNCHANGED <<args, extremaVars, tunableVars, cellVars>>
    /\ UNCHANGED <<mainVars, fluorescenceVars>>

CallNormalize ==
    /\ pc = "call"
    /\ args.fn = "normalize"
    /\ result' = normalize(args.data)
    /\ pc' = "done"
    /\ UNCHANGED <<args, extremaVars, tunableVars, cellVars>>
    /\ UNCHANGED <<mainVars, fluorescenceVars>>

CallFitToType ==
    /\ pc = "call"
    /\ args.fn = "fit_to_type"
    /\ result' \in fit_to_type(args.image, args.new_dtype)
    /\ pc' = "done"
    /\ UNCHANGED <<args, extremaVars, tunableVars, cellVars>>
    /\ UNCHANGED <<mainVars, fluorescenceVars>>

NextArrays == CallOneEveryN \/ CallNormalize \/ CallFitToType

SpecArrays == InitArrays /\ [][NextArrays]_vars

(***************************************************************************)
(* Claims about one_every_n, normalize and fit_to_type.                    *)
(***************************************************************************)
\* i and shift are congruent modulo n
Congruent(i, shift, n) ==
    \E k \in (0 - (MaxCount + 5))..(MaxCount + 5) : i - shift = k * n

\* C16: for every length >= 0, n >= 1 and integer shift (negative shift and
\* shift >= n included), one_every_n(length, n, shift) returns exactly
\* `length` entries, entry i being 1 when i mod n = shift mod n and 0
\* otherwise; with n = 2, changing shift from 0 to 1 flips every entry.
C16_OneEveryN ==
    (pc = "done" /\ args.fn = "one_every_n") =>
        /\ Len(result.returned) = args.length
        /\ \A i \in 0..(args.length - 1) :
            At(result.returned, i) =
                (IF Congruent(i, args.shift, args.n) THEN 1 ELSE 0)
        /\ (args.n = 2 /\ args.shift = 0) =>
            \A i \in 0..(args.length - 1) :
                At(one_every_n(args.length, 2, 1), i) = 1 - At(result.returned, i)

\* a call with a negative shift and one with a shift above n have returned
C16_Witness ==
    /\ pc = "done"
    /\ args.fn = "one_every_n"
    /\ args.length = 6
    /\ args.n = 3
    /\ args.shift = 0 - 4
    /\ result.returned = <<0, 0, 1, 0, 0, 1>>
    /\ one_every_n(6, 3, 4) = <<0, 1, 0, 0, 1, 0>>

NonConstant(values) == \E i, j \in DOMAIN values : values[i] # values[j]

\* C17: normalize is idempotent on non-constant arrays,
\* normalize(normalize(x)) = normalize(x); normalize(x) has minimum 0 and
\* maximum 1 and preserves the order of the entries, and x itself is not
\* modified.
C17_Normalize ==
    (pc = "done" /\ args.fn = "normalize" /\ NonConstant(args.data.values)) =>
        LET x == args.data.values
            y == result.returned.values
        IN /\ Len(y) = Len(x)
           /\ \A i \in DOMAIN y : ~FracLess(y[i], Frac(0, 1)) /\ ~FracLess(Frac(1, 1), y[i])
           /\ \E i \in DOMAIN y : y[i] = Frac(0, 1)
           /\ \E i \in DOMAIN y : y[i] = Frac(1, 1)
           /\ \A i, j \in DOMAIN x : FracLess(x[i], x[j]) <=> FracLess(y[i], y[j])
           /\ normalize(result.returned).returned = result.returned
           /\ result.data = args.data

\* a call on a floating-point array of three different values, one of them
\* negative, that returned a value strictly between 0 and 1
C17_Witness ==
    /\ pc = "done"
    /\ args.fn = "normalize"
    /\ args.data.dtype = "float"
    /\ Len(args.data.values) = 3
    /\ \E i \in 1..3 : args.data.values[i].num < 0
    /\ \E i \in 1..3 : result.returned.values[i] = Frac(1, 3)
    /\ result.data = args.data

SupportedKinds == {"f", "u", "i", "b"}

\* the message has the word `word`
Names(message, word) == \E i \in DOMAIN message : message[i] = word

\* C18: fit_to_type with a target dtype whose kind is none of float,
\* unsigned integer, signed integer or boolean ends in a TypeError whose
\* message names the unsupported kind, and returns no array; for the four
\* supported kinds it returns normally.
C18_UnsupportedKindNamed ==
    (pc = "done" /\ args.fn = "fit_to_type") =>
        IF args.new_dtype.kind \in SupportedKinds
        THEN result.raised = "" /\ Len(result.returned) = Len(args.image.values)
        ELSE /\ result.raised = "TypeError"
             /\ result.returned = <<>>
             /\ \/ Names(result.message, args.new_dtype.kind)
                \/ Names(result.message, args.new_dtype.name)

(***************************************************************************)
(* Sequences of detector calls: find_cells_in_channel called again and     *)
(* again on a channel image, with TunableManager.load_tunables between the *)
(* calls.  TunableManager.defaults, current and force_default are class    *)
(* attributes, shared by all calls.                                        *)
(***************************************************************************)
InitDetector ==
    /\ pc = "idle"
    /\ ExtremaIdle
    /\ PrimitivesIdle
    /\ channel \in [channel_image : Images, calibration_px_to_mu : {Float(1, 1)}]
    /\ bootstrap = FALSE
    /\ detection = NotDetected
    /\ cells_list = <<>>
    /\ TunablesIdle
    /\ MainIdle
    /\ FluorescenceIdle

\* TunableManager.load_tunables(data), line 56; a caller that held the
\* result of a detector call no longer holds it
LoadTunables(data) ==
    /\ current' = data
    /\ args' = [fn |-> "load_tunables", data |-> data]
    /\ result' = <<>>
    /\ detection' = NotDetected
    /\ pc' = "loaded"
    /\ UNCHANGED <<channel, bootstrap, cells_list, defaults, force_default>>
    /\ UNCHANGED extremaVars
    /\ UNCHANGED <<mainVars, fluorescenceVars>>

\* find_cells_in_channel(image), lines 95-146, with the requests it makes of
\* TunableManager.get_tunable (line 85 of generic/tunable.py)
CallFindCellsInChannel ==
    /\ pc \in {"idle", "loaded"}
    /\ \E found \in find_cells_in_channel(current, force_default, channel.channel_image) :
        /\ detection' = found
        /\ defaults' = RecordDefaults(defaults, found.asked)
        /\ pc' = IF found.raised THEN "raised" ELSE "returned"
    /\ UNCHANGED <<channel, bootstrap, cells_list, current, force_default>>
    /\ UNCHANGED extremaVars
    /\ UNCHANGED primitiveVars
    /\ UNCHANGED <<mainVars, fluorescenceVars>>

NextDetector == (\E data \in Overrides : LoadTunables(data)) \/ CallFindCellsInChannel

SpecDetector == InitDetector /\ [][NextDetector]_vars

(***************************************************************************)
(* Claims about the side effects of the detector.                          *)
(***************************************************************************)
\* the step is a call of find_cells_in_channel
DetectorCalled == pc' \in {"returned", "raised"}

TunableNames == {"foo", "my.tunable"}

\* the defaults a caller passes, one of each type
DefaultVals == {Boolean(FALSE), Integer(15), Float(1, 2)}

\* the values a loaded tunable has
OverrideVals == {Integer(0), Float(3, 2), Float(0 - 3, 2)}

\* the dictionaries load_tunables is called with
Loadable == UNION {[names -> OverrideVals] : names \in SUBSET TunableNames}

InitTunables ==
    /\ pc = "idle"
    /\ ExtremaIdle
    /\ CellsIdle
    /\ PrimitivesIdle
    /\ TunablesIdle
    /\ MainIdle
    /\ FluorescenceIdle

\* TunableManager.force_default = state, the class attribute of line 34 set
\* by the caller
SetForceDefault ==
    /\ force_default' = ~force_default
    /\ args' = [fn |-> "force_default", state |-> ~force_default]
    /\ result' = <<>>
    /\ pc' = "forced"
    /\ UNCHANGED <<defaults, current>>
    /\ UNCHANGED cellVars
    /\ UNCHANGED extremaVars
    /\ UNCHANGED <<mainVars, fluorescenceVars>>

\* TunableManager.get_tunable(what, default), lines 73-98
GetTunable ==
    /\ \E what \in TunableNames, default \in DefaultVals :
        /\ args' = [fn |-> "get_tunable", what |-> what, default |-> default]
        /\ defaults' = RecordDefaults(defaults, what :> default)
        /\ result' = [raised |-> "",
                      returned |-> get_tunable(current, force_default, what, default)]
    /\ pc' = "got"
    /\ UNCHANGED <<current, force_default>>
    /\ UNCHANGED cellVars
    /\ UNCHANGED extremaVars
    /\ UNCHANGED <<mainVars, fluorescenceVars>>

NextTunables ==
    \/ \E data \in Loadable : LoadTunables(data)
    \/ SetForceDefault
    \/ GetTunable

SpecTunables == InitTunables /\ [][NextTunables]_vars

(***************************************************************************)
(* Claims about the tunable registry.                                      *)
(***************************************************************************)
\* r is the value v as a value of the type of default: the same number as a
\* float, the number without its fractional part as an int, whether the
\* number is not zero as a bool
IsConversion(default, v, r) ==
    /\ r.kind = default.kind
    /\ r.den > 0
    /\ IF default.kind = "float" THEN r.num * v.den = v.num * r.den
       ELSE IF default.kind = "int"
       THEN /\ r.den = 1
            /\ r.num * v.num >= 0
            /\ LET a == IF r.num < 0 THEN 0 - r.num ELSE r.num
                   b == IF v.num < 0 THEN 0 - v.num ELSE v.num
               IN a * v.den <= b /\ b < (a + 1) * v.den
       ELSE /\ r.den = 1
            /\ r.num = (IF v.num = 0 THEN 0 ELSE 1)

\* C20: after any sequence of load_tunables and get_tunable calls,
\* get_tunable(what, default) returns the override current[what] converted
\* to the type of default when `what` is in the most recently loaded
\* tunables and force_default is off, and default itself otherwise (name
\* absent, or force_default on even when an override is loaded); the call
\* never changes `current`.
C20_GetTunable ==
    [][/\ (pc' = "loaded") => current' = args'.data
       /\ (pc' # "loaded") => current' = current
       /\ (pc' = "got") =>
            /\ result'.raised = ""
            /\ IF args'.what \in DOMAIN current /\ ~force_default
               THEN IsConversion(args'.default, current[args'.what], result'.returned)
               ELSE result'.returned = args'.default]_vars

\* after an earlier request and a load, an int was asked for with
\* force_default off while a negative float is loaded under the name
C20_Witness ==
    /\ pc = "got"
    /\ ~force_default
    /\ args.what = "foo"
    /\ args.default = Integer(15)
    /\ DOMAIN current = TunableNames
    /\ current["foo"] = Float(0 - 3, 2)
    /\ result.returned = Integer(0 - 1)
    /\ "my.tunable" \in DOMAIN defaults

\* force_default is on, an override is loaded under the name asked for, and
\* the default was returned
C20_ForcedWitness ==
    /\ pc = "got"
    /\ force_default
    /\ args.what \in DOMAIN current
    /\ current[args.what] = Float(3, 2)
    /\ args.default = Boolean(FALSE)
    /\ result.returned = Boolean(FALSE)

\* C21: after any sequence of get_tunable and load_tunables calls,
\* get_defaults() maps exactly the names requested so far, each to the
\* default passed in the most recent request for that name: the default is
\* recorded on every request whether or not an override or force_default
\* applies, a recorded value is never the override, and load_tunables
\* neither adds to nor removes from the defaults.
C21_DefaultsCollected ==
    [][/\ (pc' = "got") =>
            /\ DOMAIN defaults' = DOMAIN defaults \cup {args'.what}
            /\ defaults'[args'.what] = args'.default
            /\ \A what \in DOMAIN defaults \ {args'.what} :
                defaults'[what] = defaults[what]
       /\ (pc' # "got") => defaults' = defaults]_vars

\* a name was requested twice with different defaults while an override
\* for it is loaded and returned: the registry holds the later default, not
\* the override, next to the default of the other name
C21_Witness ==
    /\ pc = "got"
    /\ ~force_default
    /\ args.what = "my.tunable"
    /\ args.default = Float(1, 2)
    /\ "my.tunable" \in DOMAIN current
    /\ result.returned = Float(3, 2)
    /\ DOMAIN defaults = TunableNames
    /\ defaults["my.tunable"] = Float(1, 2)
    /\ defaults["foo"] = Integer(15)

(***************************************************************************)
(* find_insides (generic/signal.py, lines 387-411).                        *)
(***************************************************************************)
MaxInsides == 6

\* the boolean signals find_insides is called with
BoolSignals == SeqsUpTo(BOOLEAN, 0, MaxInsides)

\* last_true = None
None == 0 - 1

\* a test that tells None from an index
TruthyNotNone(last_true) == last_true # None

\* the truth value of last_true, lines 402, 404 and 408: None and the index
\* 0 are both false
Truthy(last_true) == last_true # None /\ last_true # 0

\* the loop of lines 401-406, from position n on
RECURSIVE InsidesLoop(_, _, _, _)
InsidesLoop(sig, n, pairs, last_true) ==
    IF n = Len(sig) THEN [pairs |-> pairs, last_true |-> last_true]
    ELSE IF At(sig, n) /\ ~Truthy(last_true)
         THEN InsidesLoop(sig, n + 1, pairs, n)
    ELSE IF ~At(sig, n) /\ Truthy(last_true)
         THEN InsidesLoop(sig, n + 1, Append(pairs, <<last_true, n>>), None)
    ELSE InsidesLoop(sig, n + 1, pairs, last_true)

find_insides(sig) ==
    LET walked == InsidesLoop(sig, 0, <<>>, None)
    IN IF Truthy(walked.last_true)
       THEN Append(walked.pairs, <<walked.last_true, Len(sig) - 1>>)
       ELSE walked.pairs

InitInsides ==
    /\ pc = "call"
    /\ args \in [fn : {"find_insides"}, signal : BoolSignals]
    /\ result = <<>>
    /\ ExtremaIdle
    /\ TunablesIdle
    /\ CellsIdle
    /\ MainIdle
    /\ FluorescenceIdle

CallFindInsides ==
    /\ pc = "call"
    /\ args.fn = "find_insides"
    /\ result' = [raised |-> "", returned |-> find_insides(args.signal)]
    /\ pc' = "done"
    /\ UNCHANGED <<args, extremaVars, tunableVars, cellVars>>
    /\ UNCHANGED <<mainVars, fluorescenceVars>>

NextInsides == CallFindInsides

SpecInsides == InitInsides /\ [][NextInsides]_vars

(***************************************************************************)
(* Claims about find_insides.                                              *)
(***************************************************************************)
\* the maximal runs of true values: <<s, e>> with s the index of the first
\* true element of a run and e the index just past its last one
RunsOf(sig) ==
    {<<b, e>> \in (0..Len(sig)) \X (0..Len(sig)) :
        /\ b < e
        /\ \A i \in b..(e - 1) : At(sig, i)
        /\ b = 0 \/ ~At(sig, b - 1)
        /\ e = Len(sig) \/ ~At(sig, e)}

\* the runs in ascending order
RunPairs(sig) ==
    LET runs == RunsOf(sig)
        starts == SortedSeq({r[1] : r \in runs})
    IN [k \in 1..Len(starts) |-> CHOOSE r \in runs : r[1] = starts[k]]

InsidesDone == pc = "done" /\ args.fn = "find_insides"

\* C22: for every boolean signal whose first element is false, find_insides
\* returns one pair per maximal run of true values, in ascending order, the
\* pair being [s, e] with s the index of the run's first true element and e
\* the index just past its last true element, a run that reaches the end
\* of the signal included.
C22_PairPerRun ==
    (InsidesDone /\ Len(args.signal) > 0 /\ ~At(args.signal, 0)) =>
        result.returned = RunPairs(args.signal)

AllTrue(sig) == Len(sig) > 0 /\ \A i \in DOMAIN sig : sig[i]

\* C23: in find_insides a run start recorded at index 0 is treated as "no
\* run open": no pair returned begins at index 0, and for a run of true
\* values that starts at index 0 and continues to the end of the signal no
\* pair [0, len-1] is emitted (a signal of one element gives no pair, a
\* longer one the pair [1, len-1]).
C23_RunFromZeroNotClosed ==
    (InsidesDone /\ Len(args.signal) > 0 /\ At(args.signal, 0)) =>
        /\ \A k \in DOMAIN result.returned : result.returned[k][1] # 0
        /\ AllTrue(args.signal) =>
            result.returned =
                (IF Len(args.signal) = 1 THEN <<>>
                 ELSE << <<1, Len(args.signal) - 1>> >>)

\* the call on three true values has returned
C23_Witness ==
    /\ InsidesDone
    /\ args.signal = <<TRUE, TRUE, TRUE>>
    /\ result.returned = << <<1, 2>> >>
    /\ find_insides(<<TRUE>>) = <<>>

(***************************************************************************)
(* Claims about the list find_cells_in_channel returns.                    *)
(***************************************************************************)
\* C24: every list returned by find_cells_in_channel for a profile of
\* length N is ordered and well formed: each pair [begin, end] satisfies
\* 1 <= begin < end <= N - 1, pairs are strictly ascending, consecutive pairs
\* never overlap or touch (next.begin >= previous.end + 2), and the number
\* of pairs is at most the number of positive-prominence maxima plus one.
C24_PairsWellFormed ==
    (pc = "built" /\ bootstrap /\ detection.called) =>
        LET cells == detection.cells
            N == Len(channel.channel_image)
        IN /\ \A i \in DOMAIN cells :
                1 <= cells[i][1] /\ cells[i][1] < cells[i][2] /\ cells[i][2] <= N - 1
           /\ \A i \in DOMAIN cells : i > 1 => cells[i][1] >= cells[i - 1][2] + 2
           /\ Len(cells) <= Cardinality(PositiveMaxima) + 1

\* a detection that returned two pairs, the second beginning two positions
\* after the end of the first
C24_Witness ==
    /\ Detected
    /\ Len(detection.cells) = 2
    /\ detection.cells[2][1] = detection.cells[1][2] + 2
    /\ detection.cells[2][2] = Len(channel.channel_image) - 1
    /\ Cardinality(PositiveMaxima) = 1

(***************************************************************************)
(* Claims relating threshold_outliers and outliers.                        *)
(***************************************************************************)
\* threshold_outliers changed entry i
Changed(i) == ~SurdEq(result.returned[i], Value(i))

\* entry i of the result lies in [median - t * std, median + t * std]
WithinBounds(i) ==
    /\ ~SurdGt(result.returned[i], UpperBound)
    /\ ~SurdGt(LowerBound, result.returned[i])

\* the mask outliers gives on the arguments of the call
OutliersMask == outliers(args.data, args.times_std).mask

\* C25 as stated: for times_std >= 0 the entries threshold_outliers changes
\* are exactly the entries outliers flags, every entry of the result lies
\* within [median - times_std * std, median + times_std * std] of the input,
\* and clamping the result to those bounds again changes nothing.
C25_ClampAgreesWithOutliers ==
    (ThresholdDone /\ args.times_std.num >= 0) =>
        \A i \in DOMAIN args.data.values :
            /\ Changed(i) <=> OutliersMask[i]
            /\ WithinBounds(i)

\* C25 as amended: that, on a floating-point array.  On an integer array,
\* where a bound is stored truncated, the entries changed are among the
\* entries flagged and every entry that is not flagged lies within the
\* bounds.
C25_ClampAgreesInDtype ==
    (ThresholdDone /\ args.times_std.num >= 0) =>
        \A i \in DOMAIN args.data.values :
            /\ Changed(i) => OutliersMask[i]
            /\ ~OutliersMask[i] => WithinBounds(i)
            /\ args.data.dtype = "float" =>
                /\ OutliersMask[i] => Changed(i)
                /\ WithinBounds(i)

\* a call on a floating-point array with a positive times_std that clamped
\* one entry from above to a bound that is no integer, another from below,
\* and left a third alone
C25_Witness ==
    /\ ThresholdDone
    /\ args.data.dtype = "float"
    /\ args.times_std.num > 0
    /\ ArgQ > 0
    /\ \E i \in DOMAIN args.data.values :
        AboveUpper(i) /\ OutliersMask[i] /\ SurdEq(result.returned[i], UpperBound)
    /\ \E i \in DOMAIN args.data.values :
        BelowLower(i) /\ OutliersMask[i] /\ SurdEq(result.returned[i], LowerBound)
    /\ \E i \in DOMAIN args.data.values : ~OutliersMask[i] /\ ~Changed(i)

(***************************************************************************)
(* Claims about the control index sequences of find_extrema_and_prominence.*)
(***************************************************************************)
NonDecreasing(x) == \A i \in 1..(Len(x) - 1) : x[i] <= x[i + 1]
StrictlyIncreasing(x) == \A i \in 1..(Len(x) - 1) : x[i] < x[i + 1]

\* the sequence starts at 0, ends at N - 1 and is non-decreasing
AnchoredIndices(x) ==
    /\ x[1] = 0
    /\ x[Len(x)] = Len(signal) - 1
    /\ NonDecreasing(x)

AtBoundary(i) == i = 0 \/ i = Len(signal) - 1

\* the extrema are the global extremum: the search did not run or found none
MaximaFellBack == order < 1 \/ Len(relative_maxima(signal, order)) = 0
MinimaFellBack == order < 1 \/ Len(relative_minima(signal, order)) = 0

\* C26: the anchored control index sequence (0, extrema..., N-1) always
\* starts at 0, ends at N-1 and is non-decreasing; extrema found by the
\* neighbourhood comparison are never at index 0 or N-1, so the sequence is
\* strictly increasing unless the global-extremum fallback selected index 0
\* or N-1, in which case it contains a repeated index.
C26_ControlIndices ==
    pc = "done" =>
        /\ AnchoredIndices(extrema.maximaintpx)
        /\ AnchoredIndices(extrema.minimaintpx)
        /\ \A j \in 1..MaxOrder :
            /\ \A i \in DOMAIN relative_maxima(signal, j) :
                ~AtBoundary(relative_maxima(signal, j)[i])
            /\ \A i \in DOMAIN relative_minima(signal, j) :
                ~AtBoundary(relative_minima(signal, j)[i])
        /\ StrictlyIncreasing(extrema.maximaintpx) <=>
                ~(MaximaFellBack /\ AtBoundary(extrema.maxima[1]))
        /\ StrictlyIncreasing(extrema.minimaintpx) <=>
                ~(MinimaFellBack /\ AtBoundary(extrema.minima[1]))

\* a rising signal: the maximum fell back to the last index, the minimum to
\* the first, and each sequence repeats an index
C26_Witness ==
    /\ pc = "done"
    /\ signal = <<0, 1, 2>>
    /\ order = 1
    /\ extrema.maximaintpx = <<0, 2, 2>>
    /\ extrema.minimaintpx = <<0, 0, 2>>

\* a signal with a maximum found by the comparison and a minimum that fell
\* back to an inner index: both sequences are strictly increasing
C26_StrictWitness ==
    /\ pc = "done"
    /\ signal = <<1, 2, 0, 0, 1>>
    /\ order = 1
    /\ extrema.maximaintpx = <<0, 1, 4>>
    /\ extrema.minimaintpx = <<0, 2, 4>>

(***************************************************************************)
(* The ranges main processes (mm/highlevel.py, lines 187-222) as           *)
(* parse_range (generic/etc.py, lines 91-108) reads them from the command  *)
(* line.  A range string is the sequence of its comma-separated fragments: *)
(* a number "f", a closed interval "f-t" or an open interval "f-".         *)
(***************************************************************************)
MaxStack == 3

StackIndices == 0..MaxStack

Fragments ==
    [kind : {"number"}, f : StackIndices]
        \cup [kind : {"closed"}, f : StackIndices, t : StackIndices]
        \cup [kind : {"open"}, f : StackIndices]

RangeStrings == SeqsUpTo(Fragments, 1, 2)

\* the range strings of the timepoints: the default, an open interval from
\* 1 and a closed interval
TimepointStrings ==
    {<<[kind |-> "open", f |-> 0]>>,
     <<[kind |-> "open", f |-> 1]>>,
     <<[kind |-> "closed", f |-> 0, t |-> 2]>>}

\* range(a, b)
Range(a, b) == [i \in 1..(IF b > a THEN b - a ELSE 0) |-> a + i - 1]

\* parse_range, lines 94-108, from fragment n on
RECURSIVE ParseFrom(_, _, _, _)
ParseFrom(frags, n, ranges, tail) ==
    IF n > Len(frags) THEN ranges \o tail
    ELSE IF frags[n].kind = "open"
         THEN ParseFrom(frags, n + 1, ranges, <<frags[n].f, PosInf>>)
    ELSE IF frags[n].kind = "closed"
         THEN ParseFrom(frags, n + 1, ranges \o Range(frags[n].f, frags[n].t + 1), tail)
    ELSE ParseFrom(frags, n + 1, ranges \o <<frags[n].f>>, tail)

parse_range(frags) == ParseFrom(frags, 1, <<>>, <<>>)

\* lines 189-192: del list[-2:-1] removes the one entry before the last
ExpandOpenInterval(list, count) ==
    IF list[Len(list)] = PosInf
    THEN LET f == list[Len(list) - 1]
         IN SubSeq(list, 1, Len(list) - 2) \o <<list[Len(list)]>> \o Range(f, count)
    ELSE list

\* line 194
KeepInStack(list, count) ==
    SubSeqAt(list, {i \in DOMAIN list : 0 <= list[i] /\ list[i] <= count})

\* lines 187-194 (196-202 for the timepoints)
ToProcess(parsed, count) == KeepInStack(ExpandOpenInterval(parsed, count), count)

\* list(itertools.product(timepoints, positions)), line 222
Product(timepoints, positions) ==
    [k \in 1..(Len(timepoints) * Len(positions)) |->
        <<timepoints[((k - 1) \div Len(positions)) + 1],
          positions[((k - 1) % Len(positions)) + 1]>>]

InitRanges ==
    /\ pc = "call"
    /\ args \in [fn : {"main"}, multipoints : RangeStrings, timepoints : TimepointStrings,
                 stack : [multipoints : 1..MaxStack, timepoints : 1..MaxStack]]
    /\ result = <<>>
    /\ ExtremaIdle
    /\ TunablesIdle
    /\ CellsIdle
    /\ MainIdle
    /\ FluorescenceIdle

\* main, lines 187-222; positions_to_process[-1] of an empty list (the
\* range "1-0") is an IndexError
MainRanges ==
    /\ pc = "call"
    /\ args.fn = "main"
    /\ IF parse_range(args.multipoints) = <<>> \/ parse_range(args.timepoints) = <<>>
       THEN /\ result' = [raised |-> "IndexError",
                          positions_to_process |-> <<>>,
                          timepoints_to_process |-> <<>>]
            /\ to_process' = to_process
            /\ pc' = "raised"
       ELSE LET positions_to_process ==
                    ToProcess(parse_range(args.multipoints), args.stack.multipoints)
                timepoints_to_process ==
                    ToProcess(parse_range(args.timepoints), args.stack.timepoints)
            IN /\ result' = [raised |-> "",
                             positions_to_process |-> positions_to_process,
                             timepoints_to_process |-> timepoints_to_process]
               /\ to_process' = Product(timepoints_to_process, positions_to_process)
               /\ pc' = "done"
    /\ UNCHANGED <<args, extremaVars, tunableVars, cellVars>>
    /\ UNCHANGED <<workerstates, snapshot, walk, ready, results>>
    /\ UNCHANGED fluorescenceVars

NextRanges == MainRanges

SpecRanges == InitRanges /\ [][NextRanges]_vars

(***************************************************************************)
(* Claims about the ranges.                                                *)
(***************************************************************************)
\* C28: every (timepoint, position) pair that main submits for processing
\* is a valid index of the image stack, 0 <= t < number of timepoints and
\* 0 <= pos < number of multipoints, for explicit ranges as well as for
\* open-ended ranges, whose [first, Inf] tail is expanded to first..count-1
\* and whose Inf marker never reaches processing.
C28_ValidIndices ==
    (pc = "done" /\ args.fn = "main") =>
        \A k \in DOMAIN to_process :
            /\ 0 <= to_process[k][1] /\ to_process[k][1] < args.stack.timepoints
            /\ 0 <= to_process[k][2] /\ to_process[k][2] < args.stack.multipoints

(***************************************************************************)
(* The parallel branch of main (mm/highlevel.py, lines 228-248): every     *)
(* (t, pos) pair is handed to the pool, and the main process polls the     *)
(* asynchronous results until all are collected.  The workers run beside   *)
(* the main process: an asynchronous result becomes ready at any moment    *)
(* after its task was submitted.  The k-th task submitted has the          *)
(* asynchronous result k.                                                  *)
(***************************************************************************)
MaxTasks == 4

\* the timepoints and positions to process; "-mp 1,1" names a position twice
TimepointLists == {<<0>>, <<0, 1>>}
PositionLists == {<<>>, <<0>>, <<0, 1>>, <<1, 1>>}

\* what processing_frame(t, pos) returns, lines 110-128
Frame(t, pos) == [t |-> t, pos |-> pos]

\* list(enumerate(workerstates))
Enumerate(list) == [n \in 1..Len(list) |-> <<n - 1, list[n]>>]

\* a walk through the snapshot from its first entry on
WalkOrderForward(n) == [j \in 1..n |-> j]

\* reversed(...), line 240: the entries of the snapshot in the order of the walk
WalkOrder(n) == [j \in 1..n |-> n - j + 1]

\* del list[i]
DeleteAt(list, i) == SubSeq(list, 1, i) \o SubSeq(list, i + 2, Len(list))

\* results[pos][t] = frame
Store(res, pos, t, frame) ==
    [key \in DOMAIN res \cup {<<pos, t>>} |->
        IF key = <<pos, t>> THEN frame ELSE res[key]]

InitMain ==
    /\ pc = "submit"
    /\ to_process \in {Product(timepoints, positions) :
            timepoints \in TimepointLists, positions \in PositionLists}
    /\ Len(to_process) <= MaxTasks
    /\ workerstates = <<>>
    /\ snapshot = <<>>
    /\ walk = 0
    /\ ready = {}
    /\ results = <<>>
    /\ ExtremaIdle
    /\ TunablesIdle
    /\ CellsIdle
    /\ PrimitivesIdle
    /\ FluorescenceIdle

\* lines 234-237: one pool.apply_async per pair, then the progress bar
Submit ==
    /\ pc = "submit"
    /\ IF Len(workerstates) < Len(to_process)
       THEN LET k == Len(workerstates) + 1
            IN /\ workerstates' =
                    Append(workerstates, <<to_process[k][1], to_process[k][2], k>>)
               /\ pc' = pc
       ELSE /\ pc' = "poll"
            /\ UNCHANGED workerstates
    /\ UNCHANGED <<to_process, snapshot, walk, ready, results>>
    /\ UNCHANGED <<extremaVars, tunableVars, cellVars, primitiveVars, fluorescenceVars>>

\* a worker has finished processing_frame for the task submitted as the k-th
WorkerReady(k) ==
    /\ k <= (IF pc = "submit" THEN Len(workerstates) ELSE Len(to_process))
    /\ k \notin ready
    /\ ready' = ready \cup {k}
    /\ UNCHANGED <<pc, to_process, workerstates, snapshot, walk, results>>
    /\ UNCHANGED <<extremaVars, tunableVars, cellVars, primitiveVars, fluorescenceVars>>

\* line 239 and the snapshot of line 240; line 246 when the list is empty
Poll ==
    /\ pc = "poll"
    /\ IF Len(workerstates) > 0
       THEN /\ snapshot' = Enumerate(workerstates)
            /\ walk' = 0
            /\ pc' = "walk"
       ELSE /\ pc' = "closed"
            /\ UNCHANGED <<snapshot, walk>>
    /\ UNCHANGED <<to_process, workerstates, ready, results>>
    /\ UNCHANGED <<extremaVars, tunableVars, cellVars, primitiveVars, fluorescenceVars>>

\* lines 240-244: one entry of the snapshot; del of an index the list does
\* not have is an IndexError
Visit ==
    /\ pc = "walk"
    /\ IF walk = Len(snapshot)
       THEN /\ pc' = "poll"
            /\ UNCHANGED <<walk, workerstates, results>>
       ELSE LET entry == snapshot[WalkOrder(Len(snapshot))[walk + 1]]
                i == entry[1]
                t == entry[2][1]
                pos == entry[2][2]
                state == entry[2][3]
            IN IF state \in ready
               THEN /\ results' = Store(results, pos, t, Frame(t, pos))
                    /\ IF i < Len(workerstates)
                       THEN /\ workerstates' = DeleteAt(workerstates, i)
                            /\ walk' = walk + 1
                            /\ pc' = pc
                       ELSE /\ pc' = "raised"
                            /\ UNCHANGED <<walk, workerstates>>
               ELSE /\ walk' = walk + 1
                    /\ UNCHANGED <<pc, workerstates, results>>
    /\ UNCHANGED <<to_process, snapshot, ready>>
    /\ UNCHANGED <<extremaVars, tunableVars, cellVars, primitiveVars, fluorescenceVars>>

NextMain ==
    \/ Submit
    \/ \E k \in 1..MaxTasks : WorkerReady(k)
    \/ Poll
    \/ Visit

\* the main process keeps running, and every worker finishes its task
SpecMain ==
    /\ InitMain
    /\ [][NextMain]_vars
    /\ WF_vars(Submit \/ Poll \/ Visit)
    /\ \A k \in 1..MaxTasks : WF_vars(WorkerReady(k))

(***************************************************************************)
(* Claims about the parallel branch of main.                               *)
(***************************************************************************)
\* the asynchronous results of the work list
Pending == {workerstates[n][3] : n \in DOMAIN workerstates}

Submitted == IF pc = "submit" THEN 1..Len(workerstates) ELSE 1..Len(to_process)

\* the result of the k-th task is stored
Stored(k) ==
    LET key == <<to_process[k][2], to_process[k][1]>>
    IN key \in DOMAIN results /\ results[key] = Frame(to_process[k][1], to_process[k][2])

\* every task submitted is on the work list once, or is off it with its
\* result stored
PendingKept ==
    /\ pc # "raised"
    /\ Cardinality(Pending) = Len(workerstates)
    /\ Pending \subseteq Submitted
    /\ \A k \in Submitted \ Pending : Stored(k)
    /\ \A n \in DOMAIN workerstates :
        /\ workerstates[n][1] = to_process[workerstates[n][3]][1]
        /\ workerstates[n][2] = to_process[workerstates[n][3]][2]

\* a step that takes an entry off the work list takes one entry, whose
\* result is ready, and stores that result; nothing else changes results
CollectsOne ==
    /\ (pc # "submit" /\ workerstates' # workerstates) =>
        \E n \in DOMAIN workerstates :
            /\ workerstates[n][3] \in ready
            /\ workerstates' = DeleteAt(workerstates, n - 1)
            /\ results' = Store(results, workerstates[n][2], workerstates[n][1],
                                Frame(workerstates[n][1], workerstates[n][2]))
    /\ (results' # results) => workerstates' # workerstates

\* the loop has ended: the work list is empty and every result is stored
LoopEnded == pc = "closed"

MaxFluorescences == 2
MaxChannels == 2

Rotated == 10

\* apply_rotate_and_cleanup(image, angle)[0] (generic/rotation.py)
apply_rotate_and_cleanup(image) == IF image < Rotated THEN image + Rotated ELSE image

\* Image.find_channels (mm/image.py): the numbers of channels it may find
FoundChannels == 0..MaxChannels

\* a clean that empties the lists
NonesEmptied(n) == <<>>

\* [None] * n
Nones(n) == [i \in 1..n |-> None]

\* lines 127-145 for one fluorescence image: the mean of the background
\* between neighbouring channels, 0 / 0 with a single channel
BackgroundOf(image, found) == IF found = 1 THEN NaN ELSE image

\* the loop of lines 125-145 up to the first image that is None, which
\* cannot be subscripted when there are two channels or more
RECURSIVE BackgroundLoop(_, _, _, _)
BackgroundLoop(images, background, found, i) ==
    IF i > Len(images) THEN [raised |-> "", background |-> background]
    ELSE IF images[i] = None /\ found >= 2
         THEN [raised |-> "TypeError", background |-> background]
    ELSE BackgroundLoop(images,
            [background EXCEPT ![i] = BackgroundOf(images[i], found)], found, i + 1)

InitFluorescence ==
    /\ pc = "new"
    /\ FluorescenceIdle
    /\ ExtremaIdle
    /\ TunablesIdle
    /\ CellsIdle
    /\ PrimitivesIdle
    /\ MainIdle

\* setup_add_fluorescence(fimg), lines 97-101
SetupAddFluorescence ==
    /\ Len(image_fluorescences) < MaxFluorescences
    /\ LET fimg == Len(image_fluorescences) + 1
       IN /\ image_fluorescences' = Append(image_fluorescences, fimg)
          /\ original_image_fluorescences' = Append(original_image_fluorescences, fimg)
          /\ background_fluorescences' = Append(background_fluorescences, 0)
    /\ pc' = "added"
    /\ UNCHANGED channels
    /\ UNCHANGED <<extremaVars, tunableVars, cellVars, primitiveVars, mainVars>>

\* autorotate, lines 103-107; an image that is None is not rotated, or the
\* rotation raises before the list is assigned
Autorotate ==
    /\ \/ /\ image_fluorescences' =
                [i \in DOMAIN image_fluorescences |->
                    IF image_fluorescences[i] = None THEN None
                    ELSE apply_rotate_and_cleanup(image_fluorescences[i])]
          /\ pc' = "rotated"
       \/ /\ \E i \in DOMAIN image_fluorescences : image_fluorescences[i] = None
          /\ pc' = "raised"
          /\ UNCHANGED image_fluorescences
    /\ UNCHANGED <<original_image_fluorescences, background_fluorescences, channels>>
    /\ UNCHANGED <<extremaVars, tunableVars, cellVars, primitiveVars, mainVars>>

\* find_channels, lines 116-145
FindChannels ==
    /\ \E found \in FoundChannels :
        /\ channels' = found
        /\ IF found = 0
           THEN /\ background_fluorescences' =
                        [i \in 1..Len(image_fluorescences) |-> 0]
                /\ pc' = "found"
           ELSE LET walked == BackgroundLoop(image_fluorescences,
                                    background_fluorescences, found, 1)
                IN /\ background_fluorescences' = walked.background
                   /\ pc' = IF walked.raised = "" THEN "found" ELSE "raised"
    /\ UNCHANGED <<image_fluorescences, original_image_fluorescences>>
    /\ UNCHANGED <<extremaVars, tunableVars, cellVars, primitiveVars, mainVars>>

\* clean, lines 109-113
Clean ==
    /\ image_fluorescences' = Nones(Len(image_fluorescences))
    /\ original_image_fluorescences' = Nones(Len(image_fluorescences))
    /\ pc' = "cleaned"
    /\ UNCHANGED <<background_fluorescences, channels>>
    /\ UNCHANGED <<extremaVars, tunableVars, cellVars, primitiveVars, mainVars>>

NextFluorescence == SetupAddFluorescence \/ Autorotate \/ FindChannels \/ Clean

SpecFluorescence == InitFluorescence /\ [][NextFluorescence]_vars

(***************************************************************************)
(* Claims about FluorescentImage.                                          *)
(***************************************************************************)
SameLength ==
    /\ Len(original_image_fluorescences) = Len(image_fluorescences)
    /\ Len(background_fluorescences) = Len(image_fluorescences)

\* a call of setup_add_fluorescence makes the lists one longer, every other
\* call keeps their length; clean leaves None in every image entry and the
\* background values as they were
LengthCountsSetups ==
    /\ (pc' = "added") => Len(image_fluorescences') = Len(image_fluorescences) + 1
    /\ (pc' # "added") => Len(image_fluorescences') = Len(image_fluorescences)
    /\ (pc' = "cleaned") =>
        /\ \A i \in DOMAIN image_fluorescences' :
            image_fluorescences'[i] = None /\ original_image_fluorescences'[i] = None
        /\ background_fluorescences' = background_fluorescences

\* C29: after any sequence of setup_add_fluorescence, autorotate,
\* find_channels and clean calls on a FluorescentImage, the lists
\* image_fluorescences, original_image_fluorescences and
\* background_fluorescences have the same length, equal to the number of
\* setup_add_fluorescence calls; clean replaces every image entry by None
\* without changing that length or the background values.
C29_FluorescenceLists ==
    /\ [](SameLength)
    /\ [][LengthCountsSetups]_vars

\* two images were added, rotated and measured between two channels, then
\* cleaned: the backgrounds found are still there
C29_Witness ==
    /\ pc = "cleaned"
    /\ image_fluorescences = <<None, None>>
    /\ original_image_fluorescences = <<None, None>>
    /\ background_fluorescences = <<1 + Rotated, 2 + Rotated>>
    /\ channels = 2

====
